---- MODULE Spec2Model ----
(***************************************************************************)
(* A model of mod_pywebsocket/mux.py: the multiplexing handler             *)
(* (_MuxHandler), its reader and writer threads, the per-channel workers   *)
(* and the logical connections they read from and write to.                *)
(*                                                                         *)
(* Threads: the thread that calls start() and wait_until_done() ("main"),  *)
(* _PhysicalConnectionReader, _PhysicalConnectionWriter and one _Worker    *)
(* per entry of _logical_channels.  Every action is one critical section   *)
(* of the code (the statements executed while one lock is held), or one    *)
(* lock-free step between two critical sections.                           *)
(*                                                                         *)
(* Environment: the frames the client sends are chosen from ClientFrames;  *)
(* the application handler run by a worker is any sequence of              *)
(* receive_message / send_message / close_connection calls made from the   *)
(* worker thread, ended by a return; physical_connection.write succeeds.   *)
(***************************************************************************)
EXTENDS Integers, Sequences, FiniteSets, TLC

(***************************************************************************)
(* Bounds of the model.                                                    *)
(***************************************************************************)
\* Largest channel id the client names.
MaxChannel == 2
\* Number of physical frames the client sends before it goes silent.
MaxFrames == 2
\* Number of data messages one worker's handler sends.
MaxSends == 1
\* Largest payload length of an inner frame.
MaxPayload == 1
\* Largest length of a frame payload handed to the payload parser.
MaxData == 5
\* Largest number of channel ids encoded back to back.
MaxIds == 2
\* Largest number of control blocks packed into one control frame.
MaxBlocks == 2
\* Number of threads that call MessageSender.send and send_nowait, and the
\* largest number of calls they make together.
MaxCallers == 2
MaxMessages == 3

(***************************************************************************)
(* Program constants.                                                      *)
(***************************************************************************)
_CONTROL_CHANNEL_ID == 0
_DEFAULT_CHANNEL_ID == 1
_MUX_OPCODE_ADD_CHANNEL_REQUEST == 0
_MUX_OPCODE_ADD_CHANNEL_RESPONSE == 1
_MUX_OPCODE_FLOW_CONTROL == 2
_MUX_OPCODE_DROP_CHANNEL == 3
_MUX_OPCODE_NEW_CHANNEL_SLOT == 4
STATE_ACTIVE == 1
STATE_GRACEFULLY_CLOSED == 2
STATE_TERMINATED == 3
\* common.OPCODE_TEXT and common.OPCODE_CLOSE (RFC 6455).
OPCODE_TEXT == 1
OPCODE_CLOSE == 8
OPCODE_PING == 9
OPCODE_PONG == 10
\* The payload bytes the client and the handlers use.
PayloadBytes == {65}

ChannelIds == 0..MaxChannel
Channels == 1..MaxChannel
Callers == 1..MaxCallers
ReadStates == {STATE_ACTIVE, STATE_GRACEFULLY_CLOSED, STATE_TERMINATED}
Payloads == UNION {[1..n -> PayloadBytes] : n \in 0..MaxPayload}

VARIABLES
    logical_channels,             \* _MuxHandler._logical_channels: id -> request
    worker_done_notify_received,  \* _MuxHandler._worker_done_notify_received
    incoming_data,                \* _LogicalConnection._incoming_data, per id
    waiting_write_completion,     \* _LogicalConnection._waiting_write_completion
    read_state,                   \* _LogicalConnection._read_state
    server_terminated,            \* _LogicalRequest.server_terminated
    client_terminated,            \* _LogicalRequest.client_terminated
    deque,                        \* _PhysicalConnectionWriter._deque
    stop_requested,               \* _PhysicalConnectionWriter._stop_requested
    wire,                         \* what physical_connection.write has written
    mainPc,                       \* position of the start()/wait_until_done() caller
    readerPc,                     \* position of _PhysicalConnectionReader.run
    readerReq,                    \* the logical request the reader is adding
    nframes,                      \* frames the reader has received
    writerPc,                     \* position of _PhysicalConnectionWriter.run
    outgoing_data,                \* the item the writer has popped
    workerPc,                     \* position of each _Worker
    workerLocal,                  \* locals of the worker's current stream call
    finishers,                    \* workers between the pop and the DropChannel
    finished,                     \* requests whose worker has ended (history)
    held,                         \* the locks each thread holds, in order taken
    prog,                         \* the lock operations each thread has ahead
    to_encode,                    \* channel ids still to be encoded
    data,                         \* _MuxFramePayloadParser._data
    read_position,                \* _MuxFramePayloadParser._read_position
    parsed,                       \* what the parser's methods returned or raised
    parserPc,                     \* "encode", "parse", "stopped" or "raised"
    _queue,                       \* MessageSender._queue
    condition,                    \* the Condition made by each call of send
    caller,                       \* position of each thread that calls send
    sender,                       \* position of MessageSender.run
    calls,                        \* the calls of send and send_nowait (history)
    sent,                         \* the messages send_message was given (history)
    returned                      \* the calls of send that returned (history)

vars == <<logical_channels, worker_done_notify_received, incoming_data,
          waiting_write_completion, read_state, server_terminated,
          client_terminated, deque, stop_requested, wire, mainPc, readerPc,
          readerReq, nframes, writerPc, outgoing_data, workerPc, workerLocal,
          finishers, finished, held, prog, to_encode, data, read_position,
          parsed, parserPc, _queue, condition, caller, sender, calls, sent,
          returned>>

connVars == <<incoming_data, waiting_write_completion, read_state>>
reqVars == <<server_terminated, client_terminated>>
writerVars == <<writerPc, outgoing_data, wire>>
readerVars == <<readerPc, readerReq, nframes>>
workerVars == <<workerPc, workerLocal, finishers, finished>>
lockVars == <<held, prog>>
codecVars == <<to_encode, data, read_position, parsed, parserPc>>
senderVars == <<_queue, condition, caller, sender, calls, sent, returned>>

\* The threads of one handler: the caller of start() and wait_until_done(),
\* the reader, the writer, and one worker per channel id.
MainThread == <<"main", 0>>
ReaderThread == <<"reader", 0>>
WriterThread == <<"writer", 0>>
WorkerThread(c) == <<"worker", c>>
Threads ==
    {MainThread, ReaderThread, WriterThread}
    \cup {WorkerThread(c) : c \in Channels}

(***************************************************************************)
(* _OutgoingData: channel_id is the tag the writer looks at; the rest      *)
(* describes the bytes.  req names the logical request the bytes belong    *)
(* to (0 is the implicitly opened one, n > 0 the one of the n-th frame).   *)
(***************************************************************************)
NoItem == [channel_id |-> 0, kind |-> "none", ch |-> 0, rejected |-> FALSE,
           op |-> 0, body |-> <<>>, req |-> 0]

\* _create_add_channel_response
_create_add_channel_response(c, rejected, req) ==
    [channel_id |-> _CONTROL_CHANNEL_ID, kind |-> "AddChannelResponse",
     ch |-> c, rejected |-> rejected, op |-> _MUX_OPCODE_ADD_CHANNEL_RESPONSE,
     body |-> <<>>, req |-> req]

\* _create_drop_channel
_create_drop_channel(c, req) ==
    [channel_id |-> _CONTROL_CHANNEL_ID, kind |-> "DropChannel",
     ch |-> c, rejected |-> FALSE, op |-> _MUX_OPCODE_DROP_CHANNEL,
     body |-> <<>>, req |-> req]

\* _LogicalStream._create_inner_frame, tagged by send_data
_create_inner_frame(c, opcode, payload, req) ==
    [channel_id |-> c, kind |-> "Frame", ch |-> c, rejected |-> FALSE,
     op |-> opcode, body |-> payload, req |-> req]

\* read_inner_frame: the frame header rebuilt by create_header, then payload.
read_inner_frame(opcode, payload) == <<128 + opcode, Len(payload)>> \o payload

\* Locals of a worker's current stream call: n, got: the length asked of
\* and the bytes returned by the read in progress; op: the opcode of the
\* frame being received; result: how the call ended; cont: the stream call
\* the write in progress belongs to; item: the bytes of that write.
\* sends counts the messages the handler has sent.
NoLocal == [n |-> 0, got |-> <<>>, op |-> 0, result |-> "none",
            cont |-> "none", item |-> NoItem, sends |-> 0]
NoReq == [channel_id |-> 0, req |-> 0]

\* MessageSender.__init__: the queue is empty and the thread is started.
\* No call has made a Condition yet.
NoCondition == [owner |-> "none", waiting |-> FALSE, notified |-> FALSE]
NoMessage == [message |-> 0, condition |-> 0]

SenderIdle ==
    /\ _queue = <<>>
    /\ condition = [k \in 1..MaxMessages |-> NoCondition]
    /\ caller = [t \in Callers |-> [pc |-> "idle", condition |-> 0]]
    /\ sender = [pc |-> "get", item |-> NoMessage]
    /\ calls = <<>>
    /\ sent = <<>>
    /\ returned = {}

HandlerInit ==
    /\ logical_channels = <<>>
    /\ worker_done_notify_received = FALSE
    /\ incoming_data = [c \in Channels |-> <<>>]
    /\ waiting_write_completion = [c \in Channels |-> FALSE]
    /\ read_state = [c \in Channels |-> STATE_ACTIVE]
    /\ server_terminated = [c \in Channels |-> FALSE]
    /\ client_terminated = [c \in Channels |-> FALSE]
    /\ deque = <<>>
    /\ stop_requested = FALSE
    /\ wire = <<>>
    /\ mainPc = "start"
    /\ readerPc = "notstarted"
    /\ readerReq = NoReq
    /\ nframes = 0
    /\ writerPc = "notstarted"
    /\ outgoing_data = NoItem
    /\ workerPc = [c \in Channels |-> "none"]
    /\ workerLocal = [c \in Channels |-> NoLocal]
    /\ finishers = {}
    /\ finished = {}
    /\ held = [t \in Threads |-> <<>>]
    /\ prog = [t \in Threads |-> <<>>]
    /\ SenderIdle

\* No payload is being built or parsed.
CodecIdle ==
    /\ to_encode = <<>>
    /\ data = <<>>
    /\ read_position = 0
    /\ parsed = <<>>
    /\ parserPc = "none"

Init == HandlerInit /\ CodecIdle


(***************************************************************************)
(* Helpers shared by the threads.                                          *)
(***************************************************************************)
\* The writer holds _deque_condition from the moment run() leaves its loop
\* until the flush is over; everywhere else it holds it within one action.
DequeLockFree == writerPc \notin {"flush", "flush_write", "flush_notify"}

\* _PhysicalConnectionWriter.put_outgoing_data: raises BadOperationException
\* (PutRaises) when stop was requested, appends otherwise.
PutRaises == stop_requested

put_outgoing_data(item) ==
    /\ DequeLockFree
    /\ deque' = IF stop_requested THEN deque ELSE Append(deque, item)

\* A faulty variant of AlreadyExists: the test is left out, so a request
\* that names an id already in the table replaces its entry.
AlreadyExists_untested(c) == FALSE

\* _MuxHandler._add_logical_channel: the test that raises
\* MuxUnexpectedException('Channel id %d already exists').
AlreadyExists(c) == c \in DOMAIN logical_channels

\* _MuxHandler._add_logical_channel, the branch that adds: the entry, a new
\* worker, and the fresh _LogicalConnection and _LogicalRequest it refers to.
_add_logical_channel(c, req) ==
    /\ logical_channels' =
           [k \in DOMAIN logical_channels \cup {c} |->
               IF k = c THEN req ELSE logical_channels[k]]
    /\ workerPc' = [workerPc EXCEPT ![c] = "idle"]
    /\ workerLocal' = [workerLocal EXCEPT ![c] = NoLocal]
    /\ incoming_data' = [incoming_data EXCEPT ![c] = <<>>]
    /\ waiting_write_completion' = [waiting_write_completion EXCEPT ![c] = FALSE]
    /\ read_state' = [read_state EXCEPT ![c] = STATE_ACTIVE]
    /\ server_terminated' = [server_terminated EXCEPT ![c] = FALSE]
    /\ client_terminated' = [client_terminated EXCEPT ![c] = FALSE]

\* A faulty variant of set_read_state: a connection that has left Active
\* is made Active again.
set_read_state_reopening(c, new_state) ==
    [read_state EXCEPT
        ![c] = IF @ = STATE_ACTIVE THEN new_state ELSE STATE_ACTIVE]

\* _LogicalConnection.set_read_state: an assignment under _read_condition.
set_read_state(c, new_state) == [read_state EXCEPT ![c] = new_state]

\* _MuxHandshaker._send_handshake: the AddChannelResponse of an accepted
\* handshake; nothing is sent for the default channel.
_send_handshake(c, req) ==
    IF c = _DEFAULT_CHANNEL_ID
    THEN UNCHANGED deque
    ELSE put_outgoing_data(_create_add_channel_response(c, FALSE, req))

\* The encoding field of an AddChannelRequest: two bits of the first byte.
Encodings == 0..3

\* common.HTTP_STATUS_BAD_REQUEST, and the status a HandshakeException
\* carries when the engine finds no handler for the resource.
HTTP_STATUS_BAD_REQUEST == 400
HTTP_STATUS_NOT_FOUND == 404

\* The status _do_handshake_for_logical_request passes to
\* _send_error_add_channel_response: e.status of a HandshakeException,
\* and none, which stands for Bad Request, for AbortedByUserException.
RejectionStatus(outcome) ==
    IF outcome = "HandshakeException"
    THEN HTTP_STATUS_NOT_FOUND ELSE HTTP_STATUS_BAD_REQUEST

\* A faulty variant of _send_error_add_channel_response: the response is
\* built with rejected=False.
_send_error_add_channel_response_accepting(c, status, req) ==
    put_outgoing_data([_create_add_channel_response(c, FALSE, req)
                          EXCEPT !.body = <<status>>])

\* _MuxHandler._send_error_add_channel_response: an
\* AddChannelResponse(rejected=True) whose handshake is the status line.
_send_error_add_channel_response(c, status, req) ==
    put_outgoing_data([_create_add_channel_response(c, TRUE, req)
                          EXCEPT !.body = <<status>>])

\* The outcomes of hybi.Handshaker.do_handshake.
HandshakeOutcomes ==
    {"accept", "VersionException", "HandshakeException", "AbortedByUserException"}

(***************************************************************************)
(* The thread that calls start() and then wait_until_done().               *)
(***************************************************************************)
\* start(): self._reader.start(); self._writer.start()
MainStartThreads ==
    /\ mainPc = "start"
    /\ mainPc' = "handshake"
    /\ readerPc' = "run"
    /\ writerPc' = "loop"
    /\ UNCHANGED <<logical_channels, worker_done_notify_received, connVars,
                   reqVars, deque, stop_requested, wire, readerReq, nframes,
                   outgoing_data, workerVars>>
    /\ UNCHANGED <<lockVars, codecVars, senderVars>>

\* start(): _do_handshake_for_logical_request for the default channel.
\* _send_handshake sends nothing for channel 1; a rejection sends the error
\* response (except VersionException, whose handler names an undefined
\* variable) and start() raises.
MainHandshakeDefault(outcome) ==
    /\ mainPc = "handshake"
    /\ IF outcome = "accept"
       THEN /\ mainPc' = "add"
            /\ _send_handshake(_DEFAULT_CHANNEL_ID, 0)
       ELSE /\ mainPc' = "failed"
            /\ IF outcome = "VersionException"
               THEN UNCHANGED deque
               ELSE _send_error_add_channel_response(
                        _DEFAULT_CHANNEL_ID, RejectionStatus(outcome), 0)
    /\ UNCHANGED <<logical_channels, worker_done_notify_received, connVars,
                   reqVars, stop_requested, readerVars, writerVars, workerVars>>
    /\ UNCHANGED <<lockVars, codecVars, senderVars>>

\* start(): self._add_logical_channel(logical_request)
MainAddDefault ==
    /\ mainPc = "add"
    /\ IF AlreadyExists(_DEFAULT_CHANNEL_ID)
       THEN /\ mainPc' = "failed"
            /\ UNCHANGED <<logical_channels, connVars, reqVars, workerPc,
                           workerLocal>>
       ELSE /\ mainPc' = "wait"
            /\ _add_logical_channel(_DEFAULT_CHANNEL_ID, 0)
    /\ UNCHANGED <<worker_done_notify_received, deque, stop_requested,
                   readerVars, writerVars, finishers, finished>>
    /\ UNCHANGED <<lockVars, codecVars, senderVars>>

\* wait_until_done: one pass of the while loop up to the wait, entered from
\* the call (mainPc = "wait") or from a wait that a worker's notify ended.
MainWaitCheck ==
    /\ \/ mainPc = "wait"
       \/ mainPc = "waiting" /\ worker_done_notify_received
    /\ IF DOMAIN logical_channels = {}
       THEN /\ mainPc' = "stop"
            /\ UNCHANGED worker_done_notify_received
       ELSE /\ mainPc' = "waiting"
            /\ worker_done_notify_received' = FALSE
    /\ UNCHANGED <<logical_channels, connVars, reqVars, deque, stop_requested,
                   readerVars, writerVars, workerVars>>
    /\ UNCHANGED <<lockVars, codecVars, senderVars>>

\* A faulty variant of MainTimeout: False is returned whenever the wait
\* ends, whether or not a worker has notified.
MainTimeout_untested ==
    /\ mainPc = "waiting"
    /\ mainPc' = "ret_false"
    /\ UNCHANGED <<logical_channels, worker_done_notify_received, connVars,
                   reqVars, deque, stop_requested, readerVars, writerVars,
                   workerVars>>
    /\ UNCHANGED <<lockVars, codecVars, senderVars>>

\* wait_until_done: the wait timed out with no notification: return False.
MainTimeout ==
    /\ mainPc = "waiting"
    /\ ~worker_done_notify_received
    /\ mainPc' = "ret_false"
    /\ UNCHANGED <<logical_channels, worker_done_notify_received, connVars,
                   reqVars, deque, stop_requested, readerVars, writerVars,
                   workerVars>>
    /\ UNCHANGED <<lockVars, codecVars, senderVars>>

\* wait_until_done: self._writer.stop()
MainStopWriter ==
    /\ mainPc = "stop"
    /\ DequeLockFree
    /\ stop_requested' = TRUE
    /\ mainPc' = "join"
    /\ UNCHANGED <<logical_channels, worker_done_notify_received, connVars,
                   reqVars, deque, readerVars, writerVars, workerVars>>
    /\ UNCHANGED <<lockVars, codecVars, senderVars>>

\* wait_until_done: self._writer.join(); return True
MainJoin ==
    /\ mainPc = "join"
    /\ writerPc \in {"done", "dead"}
    /\ mainPc' = "ret_true"
    /\ UNCHANGED <<logical_channels, worker_done_notify_received, connVars,
                   reqVars, deque, stop_requested, readerVars, writerVars,
                   workerVars>>
    /\ UNCHANGED <<lockVars, codecVars, senderVars>>

Main ==
    \/ MainStartThreads
    \/ \E outcome \in HandshakeOutcomes : MainHandshakeDefault(outcome)
    \/ MainAddDefault
    \/ MainWaitCheck
    \/ MainTimeout
    \/ MainStopWriter
    \/ MainJoin

(***************************************************************************)
(* _PhysicalConnectionReader.run: each action receives one frame from the  *)
(* client and runs dispatch_frame on it, up to the end of the first        *)
(* critical section that touches shared state.  An exception raised by     *)
(* dispatch_frame ends the loop (readerPc = "exit").                       *)
(***************************************************************************)
ReaderCanReceive == readerPc = "run" /\ nframes < MaxFrames

\* A faulty variant of ReaderDispatchData: the inner frame goes to the
\* connection of the default channel whatever channel id the frame names.
ReaderDispatchData_misrouted(c, opcode, payload) ==
    /\ ReaderCanReceive
    /\ nframes' = nframes + 1
    /\ IF c \in DOMAIN logical_channels
       THEN /\ incoming_data' =
                   [incoming_data EXCEPT
                       ![_DEFAULT_CHANNEL_ID] =
                           @ \o read_inner_frame(opcode, payload)]
            /\ readerPc' = "run"
       ELSE /\ readerPc' = "exit"
            /\ UNCHANGED incoming_data
    /\ UNCHANGED <<logical_channels, worker_done_notify_received,
                   waiting_write_completion, read_state, reqVars, deque,
                   stop_requested, mainPc, readerReq, writerVars, workerVars>>
    /\ UNCHANGED <<lockVars, codecVars, senderVars>>

\* A frame on channel c /= 0 carrying an inner frame:
\* read_inner_frame, then _dispatch_frame_to_logical_channel.
ReaderDispatchData(c, opcode, payload) ==
    /\ ReaderCanReceive
    /\ nframes' = nframes + 1
    /\ IF c \in DOMAIN logical_channels
       THEN /\ incoming_data' =
                   [incoming_data EXCEPT
                       ![c] = @ \o read_inner_frame(opcode, payload)]
            /\ readerPc' = "run"
       ELSE /\ readerPc' = "exit"
            /\ UNCHANGED incoming_data
    /\ UNCHANGED <<logical_channels, worker_done_notify_received,
                   waiting_write_completion, read_state, reqVars, deque,
                   stop_requested, mainPc, readerReq, writerVars, workerVars>>
    /\ UNCHANGED <<lockVars, codecVars, senderVars>>

\* A faulty variant of _process_drop_channel: a DropChannel that reports a
\* mux error is ignored.
_process_drop_channel_ignored(c, mux_error) ==
    /\ ReaderCanReceive
    /\ nframes' = nframes + 1
    /\ IF c \in DOMAIN logical_channels /\ ~mux_error
       THEN read_state' = set_read_state(c, STATE_TERMINATED)
       ELSE UNCHANGED read_state
    /\ UNCHANGED <<logical_channels, worker_done_notify_received,
                   incoming_data, waiting_write_completion, reqVars, deque,
                   stop_requested, mainPc, readerPc, readerReq, writerVars,
                   workerVars>>
    /\ UNCHANGED <<lockVars, codecVars, senderVars>>

\* A control frame carrying DropChannel(c) with an empty reason:
\* _process_drop_channel.  Both values of mux_error end in the same call.
_process_drop_channel(c, mux_error) ==
    /\ ReaderCanReceive
    /\ nframes' = nframes + 1
    /\ IF c \in DOMAIN logical_channels
       THEN read_state' = set_read_state(c, STATE_TERMINATED)
       ELSE UNCHANGED read_state
    /\ UNCHANGED <<logical_channels, worker_done_notify_received,
                   incoming_data, waiting_write_completion, reqVars, deque,
                   stop_requested, mainPc, readerPc, readerReq, writerVars,
                   workerVars>>
    /\ UNCHANGED <<lockVars, codecVars, senderVars>>

\* A control frame carrying AddChannelRequest(c, encoding, handshake):
\* _process_add_channel_request up to the call of _add_logical_channel.
\* wellformed says whether _parse_request_text accepts the handshake text,
\* outcome is what the handshake engine answers.
_process_add_channel_request(c, encoding, wellformed, outcome) ==
    /\ ReaderCanReceive
    /\ nframes' = nframes + 1
    /\ IF c = _CONTROL_CHANNEL_ID \/ encoding /= 0
       THEN \* _create_logical_request raises
            /\ readerPc' = "exit"
            /\ UNCHANGED <<deque, readerReq>>
       ELSE IF ~wellformed
       THEN \* ValueError: _send_error_add_channel_response, return
            /\ _send_error_add_channel_response(
                   c, HTTP_STATUS_BAD_REQUEST, nframes + 1)
            /\ readerPc' = IF PutRaises THEN "exit" ELSE "run"
            /\ UNCHANGED readerReq
       ELSE IF outcome = "accept"
       THEN \* _MuxHandshaker._send_handshake
            /\ _send_handshake(c, nframes + 1)
            /\ readerPc' = IF c /= _DEFAULT_CHANNEL_ID /\ PutRaises
                            THEN "exit" ELSE "add"
            /\ readerReq' = IF readerPc' = "add"
                            THEN [channel_id |-> c, req |-> nframes + 1]
                            ELSE readerReq
       ELSE IF outcome = "VersionException"
       THEN \* the except clause names the undefined variable block
            /\ readerPc' = "exit"
            /\ UNCHANGED <<deque, readerReq>>
       ELSE \* HandshakeException, AbortedByUserException
            /\ _send_error_add_channel_response(
                   c, RejectionStatus(outcome), nframes + 1)
            /\ readerPc' = IF PutRaises THEN "exit" ELSE "run"
            /\ UNCHANGED readerReq
    /\ UNCHANGED <<logical_channels, worker_done_notify_received, connVars,
                   reqVars, stop_requested, mainPc, writerVars, workerVars>>
    /\ UNCHANGED <<lockVars, codecVars, senderVars>>

\* _MuxHandler._add_logical_channel called by _process_add_channel_request.
ReaderAddLogicalChannel ==
    /\ readerPc = "add"
    /\ IF AlreadyExists(readerReq.channel_id)
       THEN /\ readerPc' = "exit"
            /\ UNCHANGED <<logical_channels, connVars, reqVars, workerPc,
                           workerLocal, readerReq>>
       ELSE /\ readerPc' = "run"
            /\ readerReq' = NoReq
            /\ _add_logical_channel(readerReq.channel_id, readerReq.req)
    /\ UNCHANGED <<worker_done_notify_received, deque, stop_requested, mainPc,
                   nframes, writerVars, finishers, finished>>
    /\ UNCHANGED <<lockVars, codecVars, senderVars>>

\* A frame dispatch_frame cannot parse (no channel id, no inner frame byte,
\* an invalid control block) or does not implement (NewChannelSlot): the
\* exception ends the loop.
ReaderDispatchInvalid ==
    /\ ReaderCanReceive
    /\ nframes' = nframes + 1
    /\ readerPc' = "exit"
    /\ UNCHANGED <<logical_channels, worker_done_notify_received, connVars,
                   reqVars, deque, stop_requested, mainPc, readerReq,
                   writerVars, workerVars>>
    /\ UNCHANGED <<lockVars, codecVars, senderVars>>

\* A control frame carrying FlowControl(c): _read_flow_control raises
\* MuxNotImplementedException (as _process_flow_control would), which ends
\* the loop of the reader.
_process_flow_control(c) ==
    /\ ReaderCanReceive
    /\ nframes' = nframes + 1
    /\ readerPc' = "exit"
    /\ UNCHANGED <<logical_channels, worker_done_notify_received, connVars,
                   reqVars, deque, stop_requested, mainPc, readerReq,
                   writerVars, workerVars>>
    /\ UNCHANGED <<lockVars, codecVars, senderVars>>

\* _receive_frame_as_frame_object raises ConnectionTerminatedException.
ReaderConnectionTerminated ==
    /\ readerPc = "run"
    /\ readerPc' = "exit"
    /\ UNCHANGED <<logical_channels, worker_done_notify_received, connVars,
                   reqVars, deque, stop_requested, mainPc, readerReq, nframes,
                   writerVars, workerVars>>
    /\ UNCHANGED <<lockVars, codecVars, senderVars>>

\* _MuxHandler.notify_reader_done
notify_reader_done ==
    /\ readerPc = "exit"
    /\ readerPc' = "done"
    /\ read_state' = [c \in Channels |->
                         IF c \in DOMAIN logical_channels
                         THEN set_read_state(c, STATE_TERMINATED)[c]
                         ELSE read_state[c]]
    /\ readerReq' = NoReq
    /\ UNCHANGED <<logical_channels, worker_done_notify_received,
                   incoming_data, waiting_write_completion, reqVars, deque,
                   stop_requested, mainPc, nframes, writerVars, workerVars>>
    /\ UNCHANGED <<lockVars, codecVars, senderVars>>

Reader ==
    \/ \E c \in Channels, opcode \in {OPCODE_TEXT, OPCODE_CLOSE},
          payload \in Payloads : ReaderDispatchData(c, opcode, payload)
    \/ \E c \in ChannelIds, mux_error \in BOOLEAN :
          _process_drop_channel(c, mux_error)
    \/ \E c \in ChannelIds, encoding \in Encodings, wellformed \in BOOLEAN,
          outcome \in HandshakeOutcomes :
          _process_add_channel_request(c, encoding, wellformed, outcome)
    \/ ReaderAddLogicalChannel
    \/ \E c \in Channels : _process_flow_control(c)
    \/ ReaderDispatchInvalid
    \/ ReaderConnectionTerminated
    \/ notify_reader_done

(***************************************************************************)
(* _PhysicalConnectionWriter.run                                           *)
(***************************************************************************)
\* The loop body: popleft under _deque_condition (the wait is the guard).
WriterPop ==
    /\ writerPc = "loop"
    /\ ~stop_requested
    /\ deque /= <<>>
    /\ outgoing_data' = Head(deque)
    /\ deque' = Tail(deque)
    /\ writerPc' = "write"
    /\ UNCHANGED <<logical_channels, worker_done_notify_received, connVars,
                   reqVars, stop_requested, wire, mainPc, readerVars,
                   workerVars>>
    /\ UNCHANGED <<lockVars, codecVars, senderVars>>

\* The loop ends: stop was requested.  The lock stays held for the flush.
WriterLeaveLoop ==
    /\ writerPc = "loop"
    /\ stop_requested
    /\ writerPc' = "flush"
    /\ UNCHANGED <<logical_channels, worker_done_notify_received, connVars,
                   reqVars, deque, stop_requested, wire, outgoing_data, mainPc,
                   readerVars, workerVars>>
    /\ UNCHANGED <<lockVars, codecVars, senderVars>>

\* A faulty variant of WriterFlushPop: run() ends without the flush.
WriterFlushPop_unflushed ==
    /\ writerPc = "flush"
    /\ writerPc' = "done"
    /\ UNCHANGED <<logical_channels, worker_done_notify_received, connVars,
                   reqVars, deque, stop_requested, wire, outgoing_data, mainPc,
                   readerVars, workerVars>>
    /\ UNCHANGED <<lockVars, codecVars, senderVars>>

\* The flush loop: popleft, or the end of run().
WriterFlushPop ==
    /\ writerPc = "flush"
    /\ IF deque = <<>>
       THEN /\ writerPc' = "done"
            /\ UNCHANGED <<deque, outgoing_data>>
       ELSE /\ outgoing_data' = Head(deque)
            /\ deque' = Tail(deque)
            /\ writerPc' = "flush_write"
    /\ UNCHANGED <<logical_channels, worker_done_notify_received, connVars,
                   reqVars, stop_requested, wire, mainPc, readerVars,
                   workerVars>>
    /\ UNCHANGED <<lockVars, codecVars, senderVars>>

\* A faulty variant of _write_data: the completion is notified without the
\* bytes having been written.
_write_data_unwritten ==
    /\ writerPc \in {"write", "flush_write"}
    /\ writerPc' =
          IF outgoing_data.channel_id /= _CONTROL_CHANNEL_ID
          THEN (IF writerPc = "write" THEN "notify" ELSE "flush_notify")
          ELSE (IF writerPc = "write" THEN "loop" ELSE "flush")
    /\ outgoing_data' =
          IF outgoing_data.channel_id /= _CONTROL_CHANNEL_ID
          THEN outgoing_data ELSE NoItem
    /\ UNCHANGED <<logical_channels, worker_done_notify_received, connVars,
                   reqVars, deque, stop_requested, wire, mainPc, readerVars,
                   workerVars>>
    /\ UNCHANGED <<lockVars, codecVars, senderVars>>

\* _write_data: physical_connection.write(outgoing_data.data)
_write_data ==
    /\ writerPc \in {"write", "flush_write"}
    /\ wire' = Append(wire, outgoing_data)
    /\ writerPc' =
          IF outgoing_data.channel_id /= _CONTROL_CHANNEL_ID
          THEN (IF writerPc = "write" THEN "notify" ELSE "flush_notify")
          ELSE (IF writerPc = "write" THEN "loop" ELSE "flush")
    /\ outgoing_data' =
          IF outgoing_data.channel_id /= _CONTROL_CHANNEL_ID
          THEN outgoing_data ELSE NoItem
    /\ UNCHANGED <<logical_channels, worker_done_notify_received, connVars,
                   reqVars, deque, stop_requested, mainPc, readerVars,
                   workerVars>>
    /\ UNCHANGED <<lockVars, codecVars, senderVars>>

\* A faulty variant of notify_write_done: the flag is cleared and the
\* condition is not notified, so the wait of the writing worker goes on.
notify_write_done_lost ==
    /\ writerPc \in {"notify", "flush_notify"}
    /\ LET c == outgoing_data.channel_id IN
       IF c \in DOMAIN logical_channels
       THEN IF waiting_write_completion[c]
            THEN /\ waiting_write_completion' =
                        [waiting_write_completion EXCEPT ![c] = FALSE]
                 /\ writerPc' = IF writerPc = "notify" THEN "loop" ELSE "flush"
                 /\ UNCHANGED workerPc
            ELSE /\ writerPc' = "dead"
                 /\ UNCHANGED <<waiting_write_completion, workerPc>>
       ELSE /\ writerPc' = IF writerPc = "notify" THEN "loop" ELSE "flush"
            /\ UNCHANGED <<waiting_write_completion, workerPc>>
    /\ outgoing_data' = NoItem
    /\ UNCHANGED <<logical_channels, worker_done_notify_received,
                   incoming_data, read_state, reqVars, deque, stop_requested,
                   wire, mainPc, readerVars, workerLocal, finishers,
                   finished>>
    /\ UNCHANGED <<lockVars, codecVars, senderVars>>

\* _MuxHandler.notify_write_done and _LogicalConnection.notify_write_done:
\* the waiting writer is woken (its wait returns); a connection that is
\* not waiting raises MuxUnexpectedException in the writer thread.
notify_write_done ==
    /\ writerPc \in {"notify", "flush_notify"}
    /\ LET c == outgoing_data.channel_id IN
       IF c \in DOMAIN logical_channels
       THEN IF waiting_write_completion[c]
            THEN /\ waiting_write_completion' =
                        [waiting_write_completion EXCEPT ![c] = FALSE]
                 /\ workerPc' =
                        [workerPc EXCEPT
                            ![c] = IF @ = "write_wait" THEN "write_ret" ELSE @]
                 /\ writerPc' = IF writerPc = "notify" THEN "loop" ELSE "flush"
            ELSE /\ writerPc' = "dead"
                 /\ UNCHANGED <<waiting_write_completion, workerPc>>
       ELSE /\ writerPc' = IF writerPc = "notify" THEN "loop" ELSE "flush"
            /\ UNCHANGED <<waiting_write_completion, workerPc>>
    /\ outgoing_data' = NoItem
    /\ UNCHANGED <<logical_channels, worker_done_notify_received,
                   incoming_data, read_state, reqVars, deque, stop_requested,
                   wire, mainPc, readerVars, workerLocal, finishers,
                   finished>>
    /\ UNCHANGED <<lockVars, codecVars, senderVars>>

Writer ==
    \/ WriterPop
    \/ WriterLeaveLoop
    \/ WriterFlushPop
    \/ _write_data
    \/ notify_write_done

(***************************************************************************)
(* _LogicalConnection.read and write, as the worker's stream calls them.   *)
(***************************************************************************)
\* read: the condition of the while loop that waits.
ReadBlocks(c, length) ==
    read_state[c] = STATE_ACTIVE /\ Len(incoming_data[c]) < length

\* read: value = self._incoming_data[:length]
ReadValue(buf, length) == SubSeq(buf, 1, length)

\* A faulty variant of ReadRest: the bytes returned stay in the buffer.
ReadRest_kept(buf, length) == buf

\* read: self._incoming_data = self._incoming_data[length:]
ReadRest(buf, length) == SubSeq(buf, length + 1, Len(buf))

\* The locals a worker keeps from one stream call to the next.
Cleared(local) == [NoLocal EXCEPT !.sends = local.sends]

\* A faulty variant of _LogicalConnection.write: the test of
\* _waiting_write_completion is left out.
_LogicalConnection_write_untested(c, item, cont) ==
    /\ waiting_write_completion' =
           [waiting_write_completion EXCEPT ![c] = TRUE]
    /\ put_outgoing_data(item)
    /\ IF PutRaises
       THEN /\ workerPc' = [workerPc EXCEPT ![c] = "raised"]
            /\ workerLocal' = [workerLocal EXCEPT
                   ![c] = [Cleared(@) EXCEPT
                              !.result = "BadOperationException"]]
       ELSE /\ workerPc' = [workerPc EXCEPT ![c] = "write_wait"]
            /\ workerLocal' = [workerLocal EXCEPT
                   ![c] = [Cleared(@) EXCEPT
                              !.cont = cont, !.item = item,
                              !.sends = IF cont = "send"
                                        THEN @ + 1 ELSE @]]

\* write(data), called by worker c for the stream call cont.  The call
\* raises MuxUnexpectedException when a write is awaiting completion; it
\* raises BadOperationException out of send_data when the writer was asked
\* to stop; otherwise it enqueues and waits on _write_condition.
_LogicalConnection_write(c, item, cont) ==
    IF waiting_write_completion[c]
    THEN /\ workerPc' = [workerPc EXCEPT ![c] = "raised"]
         /\ workerLocal' = [workerLocal EXCEPT
                ![c] = [Cleared(@) EXCEPT
                           !.result = "MuxUnexpectedException"]]
         /\ UNCHANGED <<waiting_write_completion, deque>>
    ELSE /\ waiting_write_completion' =
                [waiting_write_completion EXCEPT ![c] = TRUE]
         /\ put_outgoing_data(item)
         /\ IF PutRaises
            THEN /\ workerPc' = [workerPc EXCEPT ![c] = "raised"]
                 /\ workerLocal' = [workerLocal EXCEPT
                        ![c] = [Cleared(@) EXCEPT
                                   !.result = "BadOperationException"]]
            ELSE /\ workerPc' = [workerPc EXCEPT ![c] = "write_wait"]
                 /\ workerLocal' = [workerLocal EXCEPT
                        ![c] = [Cleared(@) EXCEPT
                                   !.cont = cont, !.item = item,
                                   !.sends = IF cont = "send"
                                             THEN @ + 1 ELSE @]]

(***************************************************************************)
(* _Worker.run: dispatcher.transfer_data(request) runs the handler, which  *)
(* calls the request's _LogicalStream; then notify_worker_done.            *)
(***************************************************************************)
\* The handler calls receive_message: Stream.receive_message starts to read
\* a frame header (2 bytes) from the connection.
WorkerReceiveMessage(c) ==
    /\ workerPc[c] = "idle"
    /\ workerPc' = [workerPc EXCEPT ![c] = "read_header"]
    /\ workerLocal' = [workerLocal EXCEPT ![c].n = 2]
    /\ UNCHANGED <<logical_channels, worker_done_notify_received, connVars,
                   reqVars, deque, stop_requested, mainPc, readerVars,
                   writerVars, finishers, finished>>
    /\ UNCHANGED <<lockVars, codecVars, senderVars>>

\* _LogicalConnection.read(length) returns or raises.
\* GracefullyClosed: _LogicalStream.receive_message returns None.
\* Terminated: ConnectionTerminatedException ends the handler.
_LogicalConnection_read(c) ==
    /\ workerPc[c] \in {"read_header", "read_body"}
    /\ ~ReadBlocks(c, workerLocal[c].n)
    /\ IF read_state[c] = STATE_GRACEFULLY_CLOSED
       THEN /\ workerPc' = [workerPc EXCEPT ![c] = "returned"]
            /\ workerLocal' = [workerLocal EXCEPT
                   ![c] = [Cleared(@) EXCEPT !.result = "None"]]
            /\ UNCHANGED incoming_data
       ELSE IF read_state[c] = STATE_TERMINATED
       THEN /\ workerPc' = [workerPc EXCEPT ![c] = "finishing"]
            /\ workerLocal' = [workerLocal EXCEPT
                   ![c] = [Cleared(@) EXCEPT
                              !.result = "ConnectionTerminatedException"]]
            /\ UNCHANGED incoming_data
       ELSE LET value == ReadValue(incoming_data[c], workerLocal[c].n) IN
            /\ incoming_data' =
                   [incoming_data EXCEPT
                       ![c] = ReadRest(@, workerLocal[c].n)]
            /\ IF workerPc[c] = "read_header"
               THEN /\ workerPc' = [workerPc EXCEPT ![c] = "read_body"]
                    /\ workerLocal' = [workerLocal EXCEPT
                           ![c].got = value, ![c].op = value[1] - 128,
                           ![c].n = value[2]]
               ELSE /\ workerPc' = [workerPc EXCEPT ![c] = "process"]
                    /\ workerLocal' = [workerLocal EXCEPT ![c].got = value]
    /\ UNCHANGED <<logical_channels, worker_done_notify_received,
                   waiting_write_completion, read_state, reqVars, deque,
                   stop_requested, mainPc, readerVars, writerVars, finishers,
                   finished>>
    /\ UNCHANGED <<lockVars, codecVars, senderVars>>

\* Stream.receive_message with the frame read: a data frame is returned to
\* the handler; a close frame sets client_terminated and, unless the server
\* side has terminated, sends the closing handshake
\* (_LogicalStream._send_closing_handshake) before None is returned.
\* A ping frame is answered by _send_pong.
WorkerProcessFrame(c) ==
    /\ workerPc[c] = "process"
    /\ workerLocal[c].op /= OPCODE_PING
    /\ IF workerLocal[c].op = OPCODE_CLOSE
       THEN /\ client_terminated' = [client_terminated EXCEPT ![c] = TRUE]
            /\ IF server_terminated[c]
               THEN /\ workerPc' = [workerPc EXCEPT ![c] = "returned"]
                    /\ workerLocal' = [workerLocal EXCEPT
                           ![c] = [Cleared(@) EXCEPT !.result = "None"]]
                    /\ UNCHANGED <<server_terminated,
                                   waiting_write_completion, deque>>
               ELSE /\ server_terminated' =
                           [server_terminated EXCEPT ![c] = TRUE]
                    /\ _LogicalConnection_write(c,
                           _create_inner_frame(c, OPCODE_CLOSE, <<>>,
                                               logical_channels[c]),
                           "close")
       ELSE /\ workerPc' = [workerPc EXCEPT ![c] = "idle"]
            /\ workerLocal' = [workerLocal EXCEPT ![c] = Cleared(@)]
            /\ UNCHANGED <<reqVars, waiting_write_completion, deque>>
    /\ UNCHANGED <<logical_channels, worker_done_notify_received,
                   incoming_data, read_state, stop_requested, mainPc,
                   readerVars, writerVars, finishers, finished>>
    /\ UNCHANGED <<lockVars, codecVars, senderVars>>

\* The handler calls _LogicalStream.send_message(payload).
send_message(c, payload) ==
    /\ workerPc[c] = "idle"
    /\ workerLocal[c].sends < MaxSends
    /\ IF server_terminated[c]
       THEN /\ workerPc' = [workerPc EXCEPT ![c] = "raised"]
            /\ workerLocal' = [workerLocal EXCEPT
                   ![c].result = "BadOperationException"]
            /\ UNCHANGED <<waiting_write_completion, deque>>
       ELSE _LogicalConnection_write(c,
                _create_inner_frame(c, OPCODE_TEXT, payload,
                                    logical_channels[c]),
                "send")
    /\ UNCHANGED <<logical_channels, worker_done_notify_received,
                   incoming_data, read_state, reqVars, stop_requested, mainPc,
                   readerVars, writerVars, finishers, finished>>
    /\ UNCHANGED <<lockVars, codecVars, senderVars>>

\* A faulty variant of send_ping: the frame carries the id of the default
\* channel whatever channel the stream belongs to.
send_ping_default(c, body) ==
    /\ workerPc[c] = "idle"
    /\ workerLocal[c].sends < MaxSends
    /\ _LogicalConnection_write(c,
           _create_inner_frame(_DEFAULT_CHANNEL_ID, OPCODE_PING, body,
                               logical_channels[c]),
           "send")
    /\ UNCHANGED <<logical_channels, worker_done_notify_received,
                   incoming_data, read_state, reqVars, stop_requested, mainPc,
                   readerVars, writerVars, finishers, finished>>
    /\ UNCHANGED <<lockVars, codecVars, senderVars>>

\* The handler calls _LogicalStream.send_ping(body).  server_terminated is
\* not looked at.  The pings a handler sends count as its sends.
send_ping(c, body) ==
    /\ workerPc[c] = "idle"
    /\ workerLocal[c].sends < MaxSends
    /\ _LogicalConnection_write(c,
           _create_inner_frame(c, OPCODE_PING, body, logical_channels[c]),
           "send")
    /\ UNCHANGED <<logical_channels, worker_done_notify_received,
                   incoming_data, read_state, reqVars, stop_requested, mainPc,
                   readerVars, writerVars, finishers, finished>>
    /\ UNCHANGED <<lockVars, codecVars, senderVars>>

\* Stream.receive_message with a ping frame read: _LogicalStream._send_pong
\* with the body of the ping.  server_terminated is not looked at.
_send_pong(c) ==
    /\ workerPc[c] = "process"
    /\ workerLocal[c].op = OPCODE_PING
    /\ _LogicalConnection_write(c,
           _create_inner_frame(c, OPCODE_PONG, workerLocal[c].got,
                               logical_channels[c]),
           "pong")
    /\ UNCHANGED <<logical_channels, worker_done_notify_received,
                   incoming_data, read_state, reqVars, stop_requested, mainPc,
                   readerVars, writerVars, finishers, finished>>
    /\ UNCHANGED <<lockVars, codecVars, senderVars>>

\* _LogicalConnection.write returns: the wait was notified.  A closing
\* handshake sent inside receive_message makes that call return None; after
\* a pong receive_message reads the next frame.
WorkerWriteReturn(c) ==
    /\ workerPc[c] = "write_ret"
    /\ IF workerLocal[c].cont = "close"
       THEN /\ workerPc' = [workerPc EXCEPT ![c] = "returned"]
            /\ workerLocal' = [workerLocal EXCEPT
                   ![c] = [Cleared(@) EXCEPT !.result = "None"]]
       ELSE IF workerLocal[c].cont = "pong"
       THEN /\ workerPc' = [workerPc EXCEPT ![c] = "read_header"]
            /\ workerLocal' = [workerLocal EXCEPT
                   ![c] = [Cleared(@) EXCEPT !.n = 2]]
       ELSE /\ workerPc' = [workerPc EXCEPT ![c] = "idle"]
            /\ workerLocal' = [workerLocal EXCEPT ![c] = Cleared(@)]
    /\ UNCHANGED <<logical_channels, worker_done_notify_received, connVars,
                   reqVars, deque, stop_requested, mainPc, readerVars,
                   writerVars, finishers, finished>>
    /\ UNCHANGED <<lockVars, codecVars, senderVars>>

\* The handler goes on after a stream call returned None or raised
\* BadOperationException or MuxUnexpectedException.
WorkerHandlerContinues(c) ==
    /\ workerPc[c] \in {"returned", "raised"}
    /\ workerPc' = [workerPc EXCEPT ![c] = "idle"]
    /\ workerLocal' = [workerLocal EXCEPT ![c] = Cleared(@)]
    /\ UNCHANGED <<logical_channels, worker_done_notify_received, connVars,
                   reqVars, deque, stop_requested, mainPc, readerVars,
                   writerVars, finishers, finished>>
    /\ UNCHANGED <<lockVars, codecVars, senderVars>>

\* The handler calls _LogicalStream.close_connection.
close_connection(c) ==
    /\ workerPc[c] = "idle"
    /\ ~server_terminated[c]
    /\ server_terminated' = [server_terminated EXCEPT ![c] = TRUE]
    /\ UNCHANGED <<logical_channels, worker_done_notify_received, connVars,
                   client_terminated, deque, stop_requested, mainPc,
                   readerVars, writerVars, workerVars>>
    /\ UNCHANGED <<lockVars, codecVars, senderVars>>

\* The handler returns or raises: transfer_data ends.
WorkerHandlerEnds(c) ==
    /\ workerPc[c] = "idle"
    /\ workerPc' = [workerPc EXCEPT ![c] = "finishing"]
    /\ UNCHANGED <<logical_channels, worker_done_notify_received, connVars,
                   reqVars, deque, stop_requested, mainPc, readerVars,
                   writerVars, workerLocal, finishers, finished>>
    /\ UNCHANGED <<lockVars, codecVars, senderVars>>

\* A faulty variant of notify_worker_done: the entry is popped and the
\* waiter is not told.
notify_worker_done_silent(c) ==
    /\ workerPc[c] = "finishing"
    /\ c \in DOMAIN logical_channels
    /\ logical_channels' =
           [k \in DOMAIN logical_channels \ {c} |-> logical_channels[k]]
    /\ workerPc' = [workerPc EXCEPT ![c] = "none"]
    /\ workerLocal' = [workerLocal EXCEPT ![c] = NoLocal]
    /\ finishers' = IF server_terminated[c]
                    THEN finishers
                    ELSE finishers \cup
                            {[channel_id |-> c, req |-> logical_channels[c]]}
    /\ finished' = finished \cup
                      {[channel_id |-> c, req |-> logical_channels[c],
                        server_terminated |-> server_terminated[c],
                        client_terminated |-> client_terminated[c]]}
    /\ UNCHANGED <<worker_done_notify_received, connVars, reqVars, deque,
                   stop_requested, mainPc, readerVars, writerVars>>
    /\ UNCHANGED <<lockVars, codecVars, senderVars>>

\* _MuxHandler.notify_worker_done up to the release of the lock: the entry
\* is popped and the waiter notified.  The thread then reads
\* server_terminated of the request it popped.
notify_worker_done(c) ==
    /\ workerPc[c] = "finishing"
    /\ c \in DOMAIN logical_channels
    /\ logical_channels' =
           [k \in DOMAIN logical_channels \ {c} |-> logical_channels[k]]
    /\ worker_done_notify_received' = TRUE
    /\ workerPc' = [workerPc EXCEPT ![c] = "none"]
    /\ workerLocal' = [workerLocal EXCEPT ![c] = NoLocal]
    /\ finishers' = IF server_terminated[c]
                    THEN finishers
                    ELSE finishers \cup
                            {[channel_id |-> c, req |-> logical_channels[c]]}
    /\ finished' = finished \cup
                      {[channel_id |-> c, req |-> logical_channels[c],
                        server_terminated |-> server_terminated[c],
                        client_terminated |-> client_terminated[c]]}
    /\ UNCHANGED <<connVars, reqVars, deque, stop_requested, mainPc,
                   readerVars, writerVars>>
    /\ UNCHANGED <<lockVars, codecVars, senderVars>>

\* notify_worker_done after the lock: self._send_drop_channel(channel_id).
\* BadOperationException out of put_outgoing_data ends the thread as well.
_send_drop_channel(f) ==
    /\ f \in finishers
    /\ put_outgoing_data(_create_drop_channel(f.channel_id, f.req))
    /\ finishers' = finishers \ {f}
    /\ UNCHANGED <<logical_channels, worker_done_notify_received, connVars,
                   reqVars, stop_requested, mainPc, readerVars, writerVars,
                   workerPc, workerLocal, finished>>
    /\ UNCHANGED <<lockVars, codecVars, senderVars>>

Worker ==
    \/ \E c \in Channels : WorkerReceiveMessage(c)
    \/ \E c \in Channels : _LogicalConnection_read(c)
    \/ \E c \in Channels : WorkerProcessFrame(c)
    \/ \E c \in Channels, payload \in Payloads : send_message(c, payload)
    \/ \E c \in Channels, body \in Payloads : send_ping(c, body)
    \/ \E c \in Channels : _send_pong(c)
    \/ \E c \in Channels : WorkerWriteReturn(c)
    \/ \E c \in Channels : WorkerHandlerContinues(c)
    \/ \E c \in Channels : close_connection(c)
    \/ \E c \in Channels : WorkerHandlerEnds(c)
    \/ \E c \in Channels : notify_worker_done(c)
    \/ \E f \in finishers : _send_drop_channel(f)

Next == Main \/ Reader \/ Writer \/ Worker

Spec == Init /\ [][Next]_vars

(***************************************************************************)
(* SpecLifecycle: the channel table, the writer and wait_until_done.  The  *)
(* client sends AddChannelRequest blocks and frames the reader rejects;    *)
(* the handlers send empty messages, close and return without receiving.   *)
(***************************************************************************)
ReaderLifecycle ==
    \/ \E c \in ChannelIds, encoding \in Encodings, wellformed \in BOOLEAN,
          outcome \in HandshakeOutcomes :
          \* a request _create_logical_request refuses is sent with one
          \* handshake text only: the text is not looked at
          /\ (c = _CONTROL_CHANNEL_ID \/ encoding /= 0)
                => (wellformed /\ outcome = "accept")
          /\ _process_add_channel_request(c, encoding, wellformed, outcome)
    \/ ReaderAddLogicalChannel
    \/ \E c \in Channels : _process_flow_control(c)
    \/ ReaderDispatchInvalid
    \/ notify_reader_done

WorkerLifecycle ==
    \/ \E c \in Channels : send_message(c, <<>>)
    \/ \E c \in Channels : WorkerWriteReturn(c)
    \/ \E c \in Channels : WorkerHandlerContinues(c)
    \/ \E c \in Channels : close_connection(c)
    \/ \E c \in Channels : WorkerHandlerEnds(c)
    \/ \E c \in Channels : notify_worker_done(c)
    \/ \E f \in finishers : _send_drop_channel(f)

NextLifecycle == Main \/ ReaderLifecycle \/ Writer \/ WorkerLifecycle

SpecLifecycle == Init /\ [][NextLifecycle]_vars

\* SpecLifecycle with the scheduling the writer thread gets: whenever it
\* can take a step of run() it eventually takes one.
SpecLifecycleFair == SpecLifecycle /\ WF_vars(Writer)

(***************************************************************************)
(* SpecWriter: the outbound path.  As SpecLifecycle, with a client whose   *)
(* AddChannelRequest blocks are well-formed, name a channel other than     *)
(* the default one and are accepted or refused by the handshake engine     *)
(* with a HandshakeException, so that responses of both kinds, DropChannel *)
(* blocks and data frames reach the writer.                                *)
(* SpecWriterFair adds the scheduling the writer thread gets: whenever it  *)
(* can take a step of run() it eventually takes one.                       *)
(***************************************************************************)
ReaderWriter ==
    \/ \E c \in Channels \ {_DEFAULT_CHANNEL_ID},
          outcome \in {"accept", "HandshakeException"} :
          _process_add_channel_request(c, 0, TRUE, outcome)
    \/ ReaderAddLogicalChannel
    \/ ReaderDispatchInvalid
    \/ notify_reader_done

NextWriter == Main \/ ReaderWriter \/ Writer \/ WorkerLifecycle

SpecWriter == Init /\ [][NextWriter]_vars

SpecWriterFair == SpecWriter /\ WF_vars(Writer)

(***************************************************************************)
(* SpecData: the inbound path.  start() is called and wait_until_done is   *)
(* not; the client sends data and close frames, DropChannel blocks and     *)
(* AddChannelRequest blocks the handshake engine accepts, and may close    *)
(* the physical connection; the handlers receive and return.               *)
(***************************************************************************)
MainData ==
    \/ MainStartThreads
    \/ MainHandshakeDefault("accept")
    \/ MainAddDefault

ReaderData ==
    \/ \E c \in Channels, opcode \in {OPCODE_TEXT, OPCODE_CLOSE},
          payload \in Payloads : ReaderDispatchData(c, opcode, payload)
    \/ \E c \in ChannelIds, mux_error \in BOOLEAN :
          _process_drop_channel(c, mux_error)
    \/ \E c \in Channels : _process_add_channel_request(c, 0, TRUE, "accept")
    \/ ReaderAddLogicalChannel
    \/ ReaderConnectionTerminated
    \/ notify_reader_done

WriterData ==
    \/ WriterPop
    \/ _write_data
    \/ notify_write_done

WorkerData ==
    \/ \E c \in Channels : WorkerReceiveMessage(c)
    \/ \E c \in Channels : _LogicalConnection_read(c)
    \/ \E c \in Channels : WorkerProcessFrame(c)
    \/ \E c \in Channels : WorkerWriteReturn(c)
    \/ \E c \in Channels : WorkerHandlerContinues(c)
    \/ \E c \in Channels : WorkerHandlerEnds(c)
    \/ \E c \in Channels : notify_worker_done(c)
    \/ \E f \in finishers : _send_drop_channel(f)

NextData == MainData \/ ReaderData \/ WriterData \/ WorkerData

SpecData == Init /\ [][NextData]_vars

\* SpecData with the scheduling the threads get: a worker whose read can
\* return or raise does so, and a worker whose handler has ended runs
\* notify_worker_done.
SpecDataFair ==
    /\ SpecData
    /\ \A c \in Channels :
          /\ WF_vars(_LogicalConnection_read(c))
          /\ WF_vars(notify_worker_done(c))

(***************************************************************************)
(* SpecStream: the stream calls of the handlers.  start() is called and    *)
(* wait_until_done is not; the client sends ping and close frames and      *)
(* AddChannelRequest blocks the handshake engine accepts; the handlers     *)
(* receive, send messages and pings and close, and do not return.          *)
(***************************************************************************)
ReaderStream ==
    \/ \E c \in Channels, opcode \in {OPCODE_PING, OPCODE_CLOSE},
          payload \in Payloads : ReaderDispatchData(c, opcode, payload)
    \/ \E c \in Channels : _process_add_channel_request(c, 0, TRUE, "accept")
    \/ ReaderAddLogicalChannel

WorkerStream ==
    \/ \E c \in Channels : WorkerReceiveMessage(c)
    \/ \E c \in Channels : _LogicalConnection_read(c)
    \/ \E c \in Channels : WorkerProcessFrame(c)
    \/ \E c \in Channels : _send_pong(c)
    \/ \E c \in Channels, payload \in Payloads : send_message(c, payload)
    \/ \E c \in Channels, body \in Payloads : send_ping(c, body)
    \/ \E c \in Channels : close_connection(c)
    \/ \E c \in Channels : WorkerWriteReturn(c)
    \/ \E c \in Channels : WorkerHandlerContinues(c)

NextStream == MainData \/ ReaderStream \/ WriterData \/ WorkerStream

SpecStream == Init /\ [][NextStream]_vars

\* SpecStream with the scheduling the threads get: the writer thread goes
\* on from a write to its notification, and a worker whose read or write
\* can return goes on.
SpecStreamFair ==
    /\ SpecStream
    /\ WF_vars(notify_write_done)
    /\ \A c \in Channels :
          /\ WF_vars(_LogicalConnection_read(c))
          /\ WF_vars(WorkerWriteReturn(c))

(***************************************************************************)
(* SpecLocks: the order in which the threads take the handler's locks.     *)
(* Every method that takes a lock is the sequence of its acquire and       *)
(* release calls; a thread runs one of its methods at a time, and the      *)
(* threads interleave.  The conditions are threading.Condition() objects,  *)
(* whose lock is reentrant.                                                *)
(***************************************************************************)
\* _MuxHandler._logical_channels_condition
TableLock == [kind |-> "table", ch |-> 0]
\* _PhysicalConnectionWriter._deque_condition
DequeLock == [kind |-> "deque", ch |-> 0]
\* _LogicalConnection._read_condition and _write_condition of channel c
ReadLock(c) == [kind |-> "read", ch |-> c]
WriteLock(c) == [kind |-> "write", ch |-> c]

Acq(l) == [op |-> "acquire", lock |-> l]
Rel(l) == [op |-> "release", lock |-> l]
\* Condition.wait(): the lock is released and acquired again.
CondWait(l) == <<Rel(l), Acq(l)>>

\* _PhysicalConnectionWriter.put_outgoing_data and stop
put_outgoing_data_locks == <<Acq(DequeLock), Rel(DequeLock)>>
stop_locks == <<Acq(DequeLock), Rel(DequeLock)>>

\* _LogicalConnection.write: send_data is called with _write_condition held.
_LogicalConnection_write_locks(c) ==
    <<Acq(WriteLock(c))>> \o put_outgoing_data_locks
    \o CondWait(WriteLock(c)) \o <<Rel(WriteLock(c))>>

\* _LogicalConnection.read
_LogicalConnection_read_locks(c) ==
    <<Acq(ReadLock(c))>> \o CondWait(ReadLock(c)) \o <<Rel(ReadLock(c))>>

\* _LogicalConnection.notify_write_done
_LogicalConnection_notify_write_done_locks(c) ==
    <<Acq(WriteLock(c)), Rel(WriteLock(c))>>

\* _LogicalConnection.append_frame_data and set_read_state
append_frame_data_locks(c) == <<Acq(ReadLock(c)), Rel(ReadLock(c))>>
set_read_state_locks(c) == <<Acq(ReadLock(c)), Rel(ReadLock(c))>>

\* A faulty variant of notify_write_done_locks: the connection's write lock
\* is taken first and the channel-table lock inside it.
notify_write_done_locks_inverted(c) ==
    <<Acq(WriteLock(c)), Acq(TableLock), Rel(TableLock), Rel(WriteLock(c))>>

\* _MuxHandler.notify_write_done
notify_write_done_locks(c) ==
    <<Acq(TableLock)>> \o _LogicalConnection_notify_write_done_locks(c)
    \o <<Rel(TableLock)>>

\* _MuxHandler._dispatch_frame_to_logical_channel
_dispatch_frame_to_logical_channel_locks(c) ==
    <<Acq(TableLock)>> \o append_frame_data_locks(c) \o <<Rel(TableLock)>>

\* _MuxHandler._process_drop_channel
_process_drop_channel_locks(c) ==
    <<Acq(TableLock)>> \o set_read_state_locks(c) \o <<Rel(TableLock)>>

\* _MuxHandler.notify_reader_done: set_read_state on the channels 1..n.
RECURSIVE SetReadStateUpTo(_)
SetReadStateUpTo(n) ==
    IF n = 0 THEN <<>> ELSE SetReadStateUpTo(n - 1) \o set_read_state_locks(n)

notify_reader_done_locks ==
    <<Acq(TableLock)>> \o SetReadStateUpTo(MaxChannel) \o <<Rel(TableLock)>>

\* _MuxHandler._add_logical_channel
_add_logical_channel_locks == <<Acq(TableLock), Rel(TableLock)>>

\* _MuxHandler._process_add_channel_request: the response, then the entry.
_process_add_channel_request_locks ==
    put_outgoing_data_locks \o _add_logical_channel_locks

\* _MuxHandler.wait_until_done
wait_until_done_locks ==
    <<Acq(TableLock)>> \o CondWait(TableLock) \o <<Rel(TableLock)>>
    \o stop_locks

\* _MuxHandler.notify_worker_done: the pop, then _send_drop_channel.
notify_worker_done_locks ==
    <<Acq(TableLock), Rel(TableLock)>> \o put_outgoing_data_locks

\* _PhysicalConnectionWriter.run with one item written in the loop and one
\* in the flush; an item is a channel id, the control channel id included.
WriterLoopItem(i) ==
    <<Rel(DequeLock)>>
    \o (IF i = _CONTROL_CHANNEL_ID THEN <<>> ELSE notify_write_done_locks(i))
    \o <<Acq(DequeLock)>>

WriterFlushItem(i) ==
    IF i = _CONTROL_CHANNEL_ID THEN <<>> ELSE notify_write_done_locks(i)

run_locks(i, j) ==
    <<Acq(DequeLock)>> \o CondWait(DequeLock) \o WriterLoopItem(i)
    \o WriterFlushItem(j) \o <<Rel(DequeLock)>>

\* The methods each thread runs.
Paths(t) ==
    IF t = MainThread
    THEN {_add_logical_channel_locks, wait_until_done_locks}
    ELSE IF t = ReaderThread
    THEN {_dispatch_frame_to_logical_channel_locks(c) : c \in Channels}
         \cup {_process_drop_channel_locks(c) : c \in Channels}
         \cup {_process_add_channel_request_locks, notify_reader_done_locks}
    ELSE IF t = WriterThread
    THEN {run_locks(i, j) : i \in ChannelIds, j \in ChannelIds}
    ELSE {_LogicalConnection_write_locks(t[2]),
          _LogicalConnection_read_locks(t[2]),
          notify_worker_done_locks}

progVarsHandler ==
    <<logical_channels, worker_done_notify_received, incoming_data,
      waiting_write_completion, read_state, server_terminated,
      client_terminated, deque, stop_requested, wire, mainPc, readerPc,
      readerReq, nframes, writerPc, outgoing_data, workerPc, workerLocal,
      finishers, finished, senderVars>>

progVars == <<progVarsHandler, codecVars>>

Holds(t, l) == \E i \in DOMAIN held[t] : held[t][i] = l

\* A thread that holds no lock and is in no method calls one.
LockBegin(t, p) ==
    /\ prog[t] = <<>>
    /\ held[t] = <<>>
    /\ p \in Paths(t)
    /\ prog' = [prog EXCEPT ![t] = p]
    /\ UNCHANGED <<held, progVars>>

\* acquire(): blocks while another thread holds the lock.
LockAcquire(t) ==
    /\ prog[t] /= <<>>
    /\ Head(prog[t]).op = "acquire"
    /\ \A u \in Threads \ {t} : ~Holds(u, Head(prog[t]).lock)
    /\ held' = [held EXCEPT ![t] = Append(@, Head(prog[t]).lock)]
    /\ prog' = [prog EXCEPT ![t] = Tail(@)]
    /\ UNCHANGED progVars

\* release(): the latest acquisition of the lock is given up.
LockRelease(t) ==
    /\ prog[t] /= <<>>
    /\ Head(prog[t]).op = "release"
    /\ LET l == Head(prog[t]).lock
           k == CHOOSE i \in DOMAIN held[t] :
                   /\ held[t][i] = l
                   /\ \A j \in DOMAIN held[t] : held[t][j] = l => j <= i
       IN held' = [held EXCEPT
                      ![t] = SubSeq(@, 1, k - 1) \o SubSeq(@, k + 1, Len(@))]
    /\ prog' = [prog EXCEPT ![t] = Tail(@)]
    /\ UNCHANGED progVars

NextLocks ==
    \/ \E t \in Threads : \E p \in Paths(t) : LockBegin(t, p)
    \/ \E t \in Threads : LockAcquire(t)
    \/ \E t \in Threads : LockRelease(t)

SpecLocks == Init /\ [][NextLocks]_vars

(***************************************************************************)
(* The payload codec: _encode_channel_id and _MuxFramePayloadParser.       *)
(* A payload is a sequence of bytes; the position of the parser counts     *)
(* the bytes read, as in the code, so the byte at position p is d[p + 1].  *)
(***************************************************************************)
\* The bytes payloads are made of: first bytes of every channel id form,
\* of AddChannelRequest and DropChannel blocks, blocks of an unknown opcode.
ByteSamples == {0, 1, 96, 112, 128, 192, 224, 255}

\* The payloads handed to the parser.
RawData == UNION {[1..n -> ByteSamples] : n \in 0..MaxData}

\* The channel ids handed to the encoder: the ends of the range of each
\* form, a value inside each range, and the neighbours of the legal range.
IdSamples ==
    {-1, 0, 1, 2^7 - 1, 2^7, 300, 2^14 - 1, 2^14, 70000, 2^21 - 1, 2^21,
     2^24 + 1, 2^29 - 1, 2^29}

IdSeqs == UNION {[1..n -> IdSamples] : n \in 1..MaxIds}

\* ord(d[i]) and struct.unpack('!H', d[i:i+2])[0]
Byte(d, i) == d[i + 1]
UnpackH(d, i) == Byte(d, i) * 256 + Byte(d, i + 1)

\* What a call returns (kind names the value) or raises (kind names the
\* exception); pos is the read position the call leaves.
Result(kind, pos, channel_id, opcode, flag, bytes) ==
    [kind |-> kind, pos |-> pos, channel_id |-> channel_id,
     opcode |-> opcode, flag |-> flag, bytes |-> bytes]

Raises(exception, pos) == Result(exception, pos, 0, 0, 0, <<>>)

Exceptions ==
    {"ValueError", "InvalidMuxFrameException",
     "InvalidMuxControlBlockException", "MuxNotImplementedException"}

\* A faulty variant of _encode_channel_id: the two-byte form is used up to
\* 2^14 inclusive.
_encode_channel_id_late(channel_id) ==
    IF channel_id < 0 THEN Raises("ValueError", 0)
    ELSE IF channel_id < 2^7
    THEN Result("bytes", 0, channel_id, 0, 0, <<channel_id>>)
    ELSE IF channel_id <= 2^14
    THEN Result("bytes", 0, channel_id, 0, 0,
                <<(32768 + channel_id) \div 256, (32768 + channel_id) % 256>>)
    ELSE IF channel_id < 2^21
    THEN Result("bytes", 0, channel_id, 0, 0,
                <<192 + channel_id \div 65536,
                  (channel_id % 65536) \div 256, channel_id % 256>>)
    ELSE IF channel_id < 2^29
    THEN Result("bytes", 0, channel_id, 0, 0,
                <<224 + channel_id \div 2^24, (channel_id \div 65536) % 256,
                  (channel_id \div 256) % 256, channel_id % 256>>)
    ELSE Raises("ValueError", 0)

\* _encode_channel_id.  struct.pack('!L', 0xe0000000 + channel_id) is
\* written byte by byte: its first byte is 0xe0 + (channel_id >> 24).
_encode_channel_id(channel_id) ==
    IF channel_id < 0 THEN Raises("ValueError", 0)
    ELSE IF channel_id < 2^7
    THEN Result("bytes", 0, channel_id, 0, 0, <<channel_id>>)
    ELSE IF channel_id < 2^14
    THEN Result("bytes", 0, channel_id, 0, 0,
                <<(32768 + channel_id) \div 256, (32768 + channel_id) % 256>>)
    ELSE IF channel_id < 2^21
    THEN Result("bytes", 0, channel_id, 0, 0,
                <<192 + channel_id \div 65536,
                  (channel_id % 65536) \div 256, channel_id % 256>>)
    ELSE IF channel_id < 2^29
    THEN Result("bytes", 0, channel_id, 0, 0,
                <<224 + channel_id \div 2^24, (channel_id \div 65536) % 256,
                  (channel_id \div 256) % 256, channel_id % 256>>)
    ELSE Raises("ValueError", 0)

\* A faulty variant of read_channel_id: the three-byte form unpacks its
\* low 16 bits one byte too early.
read_channel_id_early(d, pos) ==
    LET remaining_length == Len(d) - pos
    IN  IF remaining_length = 0
        THEN Raises("InvalidMuxFrameException", pos)
        ELSE IF Byte(d, pos) \div 32 = 7
        THEN IF remaining_length < 4
             THEN Raises("InvalidMuxFrameException", pos)
             ELSE Result("channel_id", pos + 4,
                         (Byte(d, pos) % 32) * 2^24
                         + Byte(d, pos + 1) * 65536 + UnpackH(d, pos + 2),
                         0, 0, <<>>)
        ELSE IF Byte(d, pos) \div 64 = 3
        THEN IF remaining_length < 3
             THEN Raises("InvalidMuxFrameException", pos)
             ELSE Result("channel_id", pos + 3,
                         (Byte(d, pos) % 32) * 65536 + UnpackH(d, pos),
                         0, 0, <<>>)
        ELSE IF Byte(d, pos) \div 128 = 1
        THEN IF remaining_length < 2
             THEN Raises("InvalidMuxFrameException", pos)
             ELSE Result("channel_id", pos + 2, UnpackH(d, pos) % 16384,
                         0, 0, <<>>)
        ELSE Result("channel_id", pos + 1, Byte(d, pos), 0, 0, <<>>)

\* _MuxFramePayloadParser.read_channel_id.  b & 0xe0 == 0xe0 is b \div 32 = 7,
\* b & 0xc0 == 0xc0 is b \div 64 = 3, b & 0x80 == 0x80 is b \div 128 = 1;
\* struct.unpack('!L', ...)[0] & 0x1fffffff is computed from the masked
\* first byte.
read_channel_id(d, pos) ==
    LET remaining_length == Len(d) - pos
    IN  IF remaining_length = 0
        THEN Raises("InvalidMuxFrameException", pos)
        ELSE IF Byte(d, pos) \div 32 = 7
        THEN IF remaining_length < 4
             THEN Raises("InvalidMuxFrameException", pos)
             ELSE Result("channel_id", pos + 4,
                         (Byte(d, pos) % 32) * 2^24
                         + Byte(d, pos + 1) * 65536 + UnpackH(d, pos + 2),
                         0, 0, <<>>)
        ELSE IF Byte(d, pos) \div 64 = 3
        THEN IF remaining_length < 3
             THEN Raises("InvalidMuxFrameException", pos)
             ELSE Result("channel_id", pos + 3,
                         (Byte(d, pos) % 32) * 65536 + UnpackH(d, pos + 1),
                         0, 0, <<>>)
        ELSE IF Byte(d, pos) \div 128 = 1
        THEN IF remaining_length < 2
             THEN Raises("InvalidMuxFrameException", pos)
             ELSE Result("channel_id", pos + 2, UnpackH(d, pos) % 16384,
                         0, 0, <<>>)
        ELSE Result("channel_id", pos + 1, Byte(d, pos), 0, 0, <<>>)

Bit(b) == IF b THEN 1 ELSE 0

\* _stream_hybi.create_header with mask=False, for a payload shorter than
\* 126 bytes: the first byte, then the length with the mask bit cleared.
create_header(opcode, payload_length, fin, rsv1, rsv2, rsv3) ==
    <<Bit(fin) * 128 + Bit(rsv1) * 64 + Bit(rsv2) * 32 + Bit(rsv3) * 16
      + opcode, payload_length>>

\* A faulty variant of _MuxFramePayloadParser_read_inner_frame: the
\* reserved bits are dropped.
_MuxFramePayloadParser_read_inner_frame_norsv(d, pos) ==
    IF Len(d) = pos
    THEN Raises("InvalidMuxFrameException", pos)
    ELSE LET bits == Byte(d, pos)
             payload == SubSeq(d, pos + 2, Len(d))
         IN  Result("inner_frame", Len(d), 0, bits % 16, 0,
                    create_header(bits % 16, Len(payload),
                                  bits \div 128 = 1, FALSE, FALSE, FALSE)
                    \o payload)

\* _MuxFramePayloadParser.read_inner_frame
_MuxFramePayloadParser_read_inner_frame(d, pos) ==
    IF Len(d) = pos
    THEN Raises("InvalidMuxFrameException", pos)
    ELSE LET bits == Byte(d, pos)
             fin == bits \div 128 = 1
             rsv1 == (bits \div 64) % 2 = 1
             rsv2 == (bits \div 32) % 2 = 1
             rsv3 == (bits \div 16) % 2 = 1
             opcode == bits % 16
             payload == SubSeq(d, pos + 2, Len(d))
         IN  Result("inner_frame", Len(d), 0, opcode, 0,
                    create_header(opcode, Len(payload), fin, rsv1, rsv2, rsv3)
                    \o payload)

\* The size field of _read_opcode_specific_data.  A four-byte field whose
\* value has more than 31 bits stands as 2^31 - 1: either is larger than
\* any payload.
SizeField(d, pos, size_of_size) ==
    IF size_of_size = 1 THEN Byte(d, pos)
    ELSE IF size_of_size = 2 THEN UnpackH(d, pos)
    ELSE IF size_of_size = 3 THEN Byte(d, pos) * 65536 + UnpackH(d, pos + 1)
    ELSE IF Byte(d, pos) >= 128 THEN 2147483647
    ELSE Byte(d, pos) * 2^24 + Byte(d, pos + 1) * 65536 + UnpackH(d, pos + 2)

\* A faulty variant of _read_opcode_specific_data: the read position is
\* left one byte past the data.
_read_opcode_specific_data_past(d, pos, size_of_size) ==
    IF pos + size_of_size > Len(d)
    THEN Raises("InvalidMuxControlBlockException", pos)
    ELSE LET size == SizeField(d, pos, size_of_size)
             p == pos + size_of_size
         IN  IF size > Len(d) - p
             THEN Raises("InvalidMuxControlBlockException", pos)
             ELSE Result("bytes", p + size + 1, 0, 0, 0,
                         SubSeq(d, p + 1, p + size))

\* _MuxFramePayloadParser._read_opcode_specific_data; pos + size > len is
\* written size > len - pos.
_read_opcode_specific_data(d, pos, size_of_size) ==
    IF pos + size_of_size > Len(d)
    THEN Raises("InvalidMuxControlBlockException", pos)
    ELSE LET size == SizeField(d, pos, size_of_size)
             p == pos + size_of_size
         IN  IF size > Len(d) - p
             THEN Raises("InvalidMuxControlBlockException", pos)
             ELSE Result("bytes", p + size, 0, 0, 0,
                         SubSeq(d, p + 1, p + size))

\* _MuxFramePayloadParser._read_add_channel_request: flag is the encoding,
\* bytes the encoded handshake.
_read_add_channel_request(d, pos, first_byte) ==
    LET encoding == (first_byte \div 4) % 4
        size_of_handshake_size == (first_byte % 4) + 1
        id == read_channel_id(d, pos)
    IN  IF id.kind /= "channel_id" THEN id
        ELSE LET encoded_handshake ==
                     _read_opcode_specific_data(d, id.pos,
                                                size_of_handshake_size)
             IN  IF encoded_handshake.kind /= "bytes" THEN encoded_handshake
                 ELSE Result("block", encoded_handshake.pos, id.channel_id,
                             _MUX_OPCODE_ADD_CHANNEL_REQUEST, encoding,
                             encoded_handshake.bytes)

\* _MuxFramePayloadParser._read_drop_channel: flag is mux_error, bytes the
\* reason.
_read_drop_channel(d, pos, first_byte) ==
    LET mux_error == (first_byte \div 16) % 2
        size_of_reason_size == (first_byte % 4) + 1
        id == read_channel_id(d, pos)
    IN  IF id.kind /= "channel_id" THEN id
        ELSE LET reason ==
                     _read_opcode_specific_data(d, id.pos, size_of_reason_size)
             IN  IF reason.kind /= "bytes" THEN reason
                 ELSE IF mux_error = 1 /\ Len(reason.bytes) > 0
                 THEN Raises("InvalidMuxControlBlockException", reason.pos)
                 ELSE Result("block", reason.pos, id.channel_id,
                             _MUX_OPCODE_DROP_CHANNEL, mux_error,
                             reason.bytes)

\* One turn of the generator _MuxFramePayloadParser.read_control_blocks.
read_control_blocks(d, pos) ==
    IF pos >= Len(d)
    THEN Result("StopIteration", pos, 0, 0, 0, <<>>)
    ELSE LET first_byte == Byte(d, pos)
             opcode == (first_byte \div 32) % 8
         IN  IF opcode = _MUX_OPCODE_ADD_CHANNEL_REQUEST
             THEN _read_add_channel_request(d, pos + 1, first_byte)
             ELSE IF opcode = _MUX_OPCODE_FLOW_CONTROL
             THEN Raises("MuxNotImplementedException", pos + 1)
             ELSE IF opcode = _MUX_OPCODE_DROP_CHANNEL
             THEN _read_drop_channel(d, pos + 1, first_byte)
             ELSE IF opcode = _MUX_OPCODE_NEW_CHANNEL_SLOT
             THEN Raises("MuxNotImplementedException", pos + 1)
             ELSE Raises("InvalidMuxControlBlockException", pos + 1)

\* The state a parser call leaves: the result is recorded, the position is
\* the one the call reached, and an exception ends the use of the parser.
ParserReturns(r) ==
    /\ parsed' = Append(parsed, r)
    /\ read_position' = r.pos
    /\ parserPc' = IF r.kind \in Exceptions THEN "raised"
                   ELSE IF r.kind = "StopIteration" THEN "stopped"
                   ELSE "parse"
    /\ UNCHANGED <<to_encode, data, progVarsHandler, lockVars>>

\* The next channel id is encoded and its bytes are added to the payload.
EncodeChannelId ==
    /\ parserPc = "encode"
    /\ to_encode /= <<>>
    /\ LET r == _encode_channel_id(Head(to_encode))
       IN  /\ parsed' = Append(parsed, r)
           /\ IF r.kind = "bytes"
              THEN /\ data' = data \o r.bytes
                   /\ to_encode' = Tail(to_encode)
                   /\ parserPc' = "encode"
              ELSE /\ parserPc' = "raised"
                   /\ UNCHANGED <<data, to_encode>>
    /\ UNCHANGED <<read_position, progVarsHandler, lockVars>>

\* _MuxFramePayloadParser.__init__ on the payload
ParserInit ==
    /\ parserPc = "encode"
    /\ to_encode = <<>>
    /\ parserPc' = "parse"
    /\ read_position' = 0
    /\ UNCHANGED <<to_encode, data, parsed, progVarsHandler, lockVars>>

ParserReadChannelId ==
    /\ parserPc = "parse"
    /\ ParserReturns(read_channel_id(data, read_position))

ParserReadInnerFrame ==
    /\ parserPc = "parse"
    /\ ParserReturns(_MuxFramePayloadParser_read_inner_frame(data,
                                                            read_position))

ParserReadControlBlocks ==
    /\ parserPc = "parse"
    /\ ParserReturns(read_control_blocks(data, read_position))

(***************************************************************************)
(* SpecEncode: channel ids are encoded back to back and the payload is     *)
(* read again with read_channel_id.                                        *)
(* SpecParse: the parser is given any payload and its methods are called   *)
(* as dispatch_frame calls them: read_channel_id, then read_inner_frame,   *)
(* or read_control_blocks until it stops.                                  *)
(***************************************************************************)
InitEncode ==
    /\ HandlerInit
    /\ to_encode \in IdSeqs
    /\ data = <<>>
    /\ read_position = 0
    /\ parsed = <<>>
    /\ parserPc = "encode"

NextEncode == EncodeChannelId \/ ParserInit \/ ParserReadChannelId

SpecEncode == InitEncode /\ [][NextEncode]_vars

InitParse ==
    /\ HandlerInit
    /\ to_encode = <<>>
    /\ data \in RawData
    /\ read_position = 0
    /\ parsed = <<>>
    /\ parserPc = "encode"

\* dispatch_frame: the channel id comes first and decides what is read
\* next, the inner frame or the control blocks.
DispatchReadChannelId ==
    /\ parsed = <<>>
    /\ ParserReadChannelId

DispatchReadInnerFrame ==
    /\ Len(parsed) = 1
    /\ parsed[1].channel_id /= _CONTROL_CHANNEL_ID
    /\ ParserReadInnerFrame

DispatchReadControlBlocks ==
    /\ Len(parsed) >= 1
    /\ parsed[1].channel_id = _CONTROL_CHANNEL_ID
    /\ ParserReadControlBlocks

NextParse ==
    \/ ParserInit
    \/ DispatchReadChannelId
    \/ DispatchReadInnerFrame
    \/ DispatchReadControlBlocks

SpecParse == InitParse /\ [][NextParse]_vars

(***************************************************************************)
(* The control blocks the server builds, byte by byte, and SpecBlocks:     *)
(* DropChannel blocks are built by _create_drop_channel, the blocks of     *)
(* several calls are packed into the payload of one control frame, and     *)
(* the payload is read as dispatch_frame reads it: read_channel_id, then   *)
(* read_control_blocks until it stops.                                     *)
(***************************************************************************)
_MAX_CHANNEL_ID == 2^29 - 1

\* int(math.floor(math.log(length, 2))) for length > 0
RECURSIVE Log2(_)
Log2(length) == IF length < 2 THEN 0 ELSE 1 + Log2(length \div 2)

\* _create_control_block_length_value.  The three fields of the first byte
\* do not overlap, so the bitwise or is a sum.  len(value) is below 2^24.
_create_control_block_length_value(channel_id, opcode, flags, value) ==
    IF channel_id < 0 \/ channel_id > _MAX_CHANNEL_ID
    THEN Raises("ValueError", 0)
    ELSE IF opcode \notin {_MUX_OPCODE_ADD_CHANNEL_REQUEST,
                           _MUX_OPCODE_ADD_CHANNEL_RESPONSE,
                           _MUX_OPCODE_DROP_CHANNEL}
    THEN Raises("ValueError", 0)
    ELSE IF flags < 0 \/ flags > 7
    THEN Raises("ValueError", 0)
    ELSE LET length == Len(value)
             first_byte ==
                 IF length > 0
                 THEN opcode * 32 + flags * 4 + (Log2(length) \div 8)
                 ELSE opcode * 32 + flags * 4
             encoded_length ==
                 IF length < 2^8 THEN <<length>>
                 ELSE IF length < 2^16
                 THEN <<length \div 256, length % 256>>
                 ELSE <<length \div 65536, (length % 65536) \div 256,
                        length % 256>>
         IN  Result("bytes", 0, channel_id, opcode, flags,
                    <<first_byte>> \o _encode_channel_id(channel_id).bytes
                    \o encoded_length \o value)

\* The payload _create_drop_channel hands to create_binary_frame.
_create_drop_channel_payload(channel_id, reason, mux_error) ==
    IF ~mux_error /\ Len(reason) > 0
    THEN Raises("ValueError", 0)
    ELSE LET flags == (IF mux_error THEN 1 ELSE 0) * 4
             block == _create_control_block_length_value(
                          channel_id, _MUX_OPCODE_DROP_CHANNEL, flags, reason)
         IN  IF block.kind /= "bytes" THEN block
             ELSE Result("bytes", 0, channel_id, _MUX_OPCODE_DROP_CHANNEL,
                         IF mux_error THEN 1 ELSE 0,
                         _encode_channel_id(_CONTROL_CHANNEL_ID).bytes
                         \o block.bytes)

\* The arguments _create_drop_channel is called with: a channel id of the
\* one-byte and of the two-byte form, and a reason that is empty, short, or
\* long enough for a two-byte length.
BlockIds == {1, 300}
LongReason == [i \in 1..300 |-> 65]
Reasons == {<<>>, <<65>>, LongReason}
DropChannels ==
    [channel_id : BlockIds, reason : Reasons, mux_error : BOOLEAN]
DropChannelSeqs == UNION {[1..n -> DropChannels] : n \in 1..MaxBlocks}

\* _create_drop_channel for the next block.  The first payload is taken
\* whole; of the later ones the block is appended, without the channel id
\* of the control channel.
CreateDropChannel ==
    /\ parserPc = "encode"
    /\ Len(parsed) < Len(to_encode)
    /\ LET arg == to_encode[Len(parsed) + 1]
           r == _create_drop_channel_payload(arg.channel_id, arg.reason,
                                             arg.mux_error)
       IN  /\ parsed' = Append(parsed, r)
           /\ IF r.kind = "bytes"
              THEN /\ data' = IF data = <<>> THEN r.bytes
                              ELSE data \o Tail(r.bytes)
                   /\ parserPc' = "encode"
              ELSE /\ parserPc' = "raised"
                   /\ UNCHANGED data
    /\ UNCHANGED <<to_encode, read_position, progVarsHandler, lockVars>>

\* _MuxFramePayloadParser.__init__ on the payload, once every block is in.
BlocksParserInit ==
    /\ parserPc = "encode"
    /\ Len(parsed) = Len(to_encode)
    /\ parserPc' = "parse"
    /\ read_position' = 0
    /\ UNCHANGED <<to_encode, data, parsed, progVarsHandler, lockVars>>

BlocksReadChannelId ==
    /\ read_position = 0
    /\ ParserReadChannelId

BlocksReadControlBlocks ==
    /\ read_position > 0
    /\ ParserReadControlBlocks

InitBlocks ==
    /\ HandlerInit
    /\ to_encode \in DropChannelSeqs
    /\ data = <<>>
    /\ read_position = 0
    /\ parsed = <<>>
    /\ parserPc = "encode"

NextBlocks ==
    \/ CreateDropChannel
    \/ BlocksParserInit
    \/ BlocksReadChannelId
    \/ BlocksReadControlBlocks

SpecBlocks == InitBlocks /\ [][NextBlocks]_vars

(***************************************************************************)
(* msgutil.MessageSender.  The handler's threads call send and             *)
(* send_nowait; the sender thread runs run().  A message is named by the   *)
(* number of the call that queued it, and so is the Condition the call     *)
(* made.  Condition.wait releases the lock and returns, with the lock      *)
(* taken again, after a notify; notify wakes a thread that is waiting and  *)
(* does nothing when none is.                                              *)
(***************************************************************************)
muxVars ==
    <<logical_channels, worker_done_notify_received, connVars, reqVars,
      deque, stop_requested, mainPc, readerVars, writerVars, workerVars>>

\* A faulty variant of SendPut: the Condition is not acquired before the
\* message is queued.
SendPut_unlocked(t) ==
    /\ caller[t].pc = "idle"
    /\ Len(calls) < MaxMessages
    /\ LET k == Len(calls) + 1 IN
       /\ calls' = Append(calls, [caller |-> t, blocking |-> TRUE])
       /\ _queue' = Append(_queue, [message |-> k, condition |-> k])
       /\ caller' = [caller EXCEPT ![t] = [pc |-> "put", condition |-> k]]
       /\ UNCHANGED condition
    /\ UNCHANGED <<sender, sent, returned, muxVars, lockVars, codecVars>>

\* send: condition = threading.Condition(); condition.acquire();
\* self._queue.put((message, condition))
SendPut(t) ==
    /\ caller[t].pc = "idle"
    /\ Len(calls) < MaxMessages
    /\ LET k == Len(calls) + 1 IN
       /\ calls' = Append(calls, [caller |-> t, blocking |-> TRUE])
       /\ condition' = [condition EXCEPT ![k].owner = "caller"]
       /\ _queue' = Append(_queue, [message |-> k, condition |-> k])
       /\ caller' = [caller EXCEPT ![t] = [pc |-> "put", condition |-> k]]
    /\ UNCHANGED <<sender, sent, returned, muxVars, lockVars, codecVars>>

\* send: condition.wait() begins: the lock is released and the thread
\* waits for a notify.
SendWait(t) ==
    /\ caller[t].pc = "put"
    /\ condition' = [condition EXCEPT
           ![caller[t].condition] =
               [owner |-> IF @.owner = "caller" THEN "none" ELSE @.owner,
                waiting |-> TRUE, notified |-> FALSE]]
    /\ caller' = [caller EXCEPT ![t].pc = "waiting"]
    /\ UNCHANGED <<_queue, sender, calls, sent, returned, muxVars, lockVars,
                   codecVars>>

\* send: condition.wait() ends, with the lock taken again, and send returns.
SendReturn(t) ==
    /\ caller[t].pc = "waiting"
    /\ condition[caller[t].condition].notified
    /\ condition[caller[t].condition].owner = "none"
    /\ condition' = [condition EXCEPT ![caller[t].condition].owner = "caller"]
    /\ returned' = returned \cup {caller[t].condition}
    /\ caller' = [caller EXCEPT ![t] = [pc |-> "idle", condition |-> 0]]
    /\ UNCHANGED <<_queue, sender, calls, sent, muxVars, lockVars, codecVars>>

\* send_nowait: self._queue.put((message, threading.Condition()))
send_nowait(t) ==
    /\ caller[t].pc = "idle"
    /\ Len(calls) < MaxMessages
    /\ LET k == Len(calls) + 1 IN
       /\ calls' = Append(calls, [caller |-> t, blocking |-> FALSE])
       /\ _queue' = Append(_queue, [message |-> k, condition |-> k])
    /\ UNCHANGED <<condition, caller, sender, sent, returned, muxVars,
                   lockVars, codecVars>>

\* run: message, condition = self._queue.get()
SenderGet ==
    /\ sender.pc = "get"
    /\ _queue /= <<>>
    /\ sender' = [pc |-> "acquire", item |-> Head(_queue)]
    /\ _queue' = Tail(_queue)
    /\ UNCHANGED <<condition, caller, calls, sent, returned, muxVars,
                   lockVars, codecVars>>

\* run: condition.acquire()
SenderAcquire ==
    /\ sender.pc = "acquire"
    /\ condition[sender.item.condition].owner = "none"
    /\ condition' = [condition EXCEPT ![sender.item.condition].owner = "sender"]
    /\ sender' = [sender EXCEPT !.pc = "send"]
    /\ UNCHANGED <<_queue, caller, calls, sent, returned, muxVars, lockVars,
                   codecVars>>

\* run: send_message(self._request, message) returns, or raises and ends
\* the thread.
SenderSendMessage ==
    /\ sender.pc = "send"
    /\ \/ /\ sent' = Append(sent, sender.item.message)
          /\ sender' = [sender EXCEPT !.pc = "notify"]
       \/ /\ sender' = [sender EXCEPT !.pc = "dead"]
          /\ UNCHANGED sent
    /\ UNCHANGED <<_queue, condition, caller, calls, returned, muxVars,
                   lockVars, codecVars>>

\* run: condition.notify()
SenderNotify ==
    /\ sender.pc = "notify"
    /\ condition' = [condition EXCEPT
           ![sender.item.condition] =
               IF @.waiting
               THEN [@ EXCEPT !.waiting = FALSE, !.notified = TRUE]
               ELSE @]
    /\ sender' = [sender EXCEPT !.pc = "release"]
    /\ UNCHANGED <<_queue, caller, calls, sent, returned, muxVars, lockVars,
                   codecVars>>

\* run: condition.release()
SenderRelease ==
    /\ sender.pc = "release"
    /\ condition' = [condition EXCEPT ![sender.item.condition].owner = "none"]
    /\ sender' = [pc |-> "get", item |-> NoMessage]
    /\ UNCHANGED <<_queue, caller, calls, sent, returned, muxVars, lockVars,
                   codecVars>>

NextSender ==
    \/ \E t \in Callers : SendPut(t)
    \/ \E t \in Callers : SendWait(t)
    \/ \E t \in Callers : SendReturn(t)
    \/ \E t \in Callers : send_nowait(t)
    \/ SenderGet
    \/ SenderAcquire
    \/ SenderSendMessage
    \/ SenderNotify
    \/ SenderRelease

SpecSender == Init /\ [][NextSender]_vars

\* SpecSender with the scheduling the threads get: the sender thread goes
\* on after send_message has returned, and a caller whose wait can return
\* goes on.
SpecSenderFair ==
    /\ SpecSender
    /\ WF_vars(SenderNotify)
    /\ WF_vars(SenderRelease)
    /\ \A t \in Callers : WF_vars(SendReturn(t))

(***************************************************************************)
(* Properties of the channel table, the writer and wait_until_done,        *)
(* checked under SpecLifecycle.                                            *)
(***************************************************************************)
\* The positions on the wire of the AddChannelResponse(rejected=false)
\* blocks that name c.
ResponsesOnWire(c) ==
    {i \in DOMAIN wire : /\ wire[i].kind = "AddChannelResponse"
                         /\ ~wire[i].rejected
                         /\ wire[i].ch = c}

\* The requests on channel c the handler has accepted: the one in the
\* table and those whose worker has ended.
AcceptedRequests(c) ==
    (IF c \in DOMAIN logical_channels THEN {logical_channels[c]} ELSE {})
    \cup {f.req : f \in {g \in finished : g.channel_id = c}}

\* The request the reader has answered and is about to add.
PendingRequests(c) ==
    IF readerPc = "add" /\ readerReq.channel_id = c THEN {readerReq.req} ELSE {}

\* C1: for a channel id c >= 2, the connection carries one
\* AddChannelResponse(rejected=false) naming c per request on c that the
\* handler accepts: never more responses than requests accepted or about to
\* be added.
C1_OneResponsePerAcceptedRequest ==
    \A c \in 2..MaxChannel :
        Cardinality(ResponsesOnWire(c)) <=
            Cardinality(AcceptedRequests(c) \cup PendingRequests(c))

\* C2: the table never has an entry for the control channel id 0, and no
\* step replaces the entry of an id that is in the table: an id keeps the
\* request it was added with until its worker removes it.
C2_NoControlEntryNoReplace ==
    /\ [](_CONTROL_CHANNEL_ID \notin DOMAIN logical_channels)
    /\ [][\A c \in DOMAIN logical_channels \cap DOMAIN logical_channels' :
             logical_channels'[c] = logical_channels[c]]_vars

\* C2's case: the reader has refused to add a second request that names an
\* id in use, and the entry still belongs to the first one.
C2_Witness ==
    /\ readerPc = "exit"
    /\ readerReq.channel_id \in DOMAIN logical_channels
    /\ logical_channels[readerReq.channel_id] /= readerReq.req

\* The items of the writer queue tagged with channel id c.
QueuedFor(c) == {i \in DOMAIN deque : deque[i].channel_id = c}

LastWritten(c) ==
    LET I == {i \in DOMAIN wire : wire[i].channel_id = c} IN
    IF I = {} THEN NoItem
    ELSE wire[CHOOSE i \in I : \A j \in I : j <= i]

\* C4: when _LogicalConnection.write returns to the worker, its item is the
\* last thing written to the physical connection for the channel, no item
\* of the channel is in the writer queue or in the writer's hands, and the
\* completion has been signalled.
C4_WriteReturnsAfterWritten ==
    \A c \in Channels :
        workerPc[c] = "write_ret"
        => /\ LastWritten(c) = workerLocal[c].item
           /\ QueuedFor(c) = {}
           /\ outgoing_data.channel_id /= c
           /\ ~waiting_write_completion[c]

\* C4's case: a write has returned.
C4_Witness ==
    \E c \in Channels :
        /\ workerPc[c] = "write_ret"
        /\ workerLocal[c].item.kind = "Frame"

\* C9: when wait_until_done has returned True, every worker that finished
\* with server_terminated false has its DropChannel on the wire.
C9_DropChannelBeforeReturn ==
    mainPc = "ret_true"
    => \A f \in finished :
          ~f.server_terminated
          => \E i \in DOMAIN wire :
                wire[i] = _create_drop_channel(f.channel_id, f.req)

\* C10: when wait_until_done has returned True, the channel table is empty
\* and the writer queue is drained.
C10_EmptyAfterReturn ==
    mainPc = "ret_true"
    => /\ DOMAIN logical_channels = {}
       /\ deque = <<>>

(***************************************************************************)
(* Properties of the inbound path, checked under SpecData and              *)
(* SpecDataFair.                                                           *)
(***************************************************************************)
\* C5: a read(n) that returns while the read state is Active finds at least
\* n bytes buffered, returns the first n of them and leaves the others in
\* the buffer, in order.
C5_ReadReturnsFirstBytes ==
    [][\A c \in Channels :
          (_LogicalConnection_read(c) /\ read_state[c] = STATE_ACTIVE)
          => LET n == workerLocal[c].n
                 buf == incoming_data[c]
             IN /\ Len(buf) >= n
                /\ Len(workerLocal'[c].got) = n
                /\ \A i \in 1..n : workerLocal'[c].got[i] = buf[i]
                /\ Len(incoming_data'[c]) = Len(buf) - n
                /\ \A i \in 1..(Len(buf) - n) :
                      incoming_data'[c][i] = buf[i + n]]_vars

\* C5's case: a read has returned part of a buffer that held more.
C5_Witness ==
    \E c \in Channels :
        /\ workerPc[c] = "read_body"
        /\ read_state[c] = STATE_ACTIVE
        /\ Len(workerLocal[c].got) = 2
        /\ incoming_data[c] /= <<>>

\* C6: a DropChannel for a channel c in the table sets c's read state to
\* Terminated and leaves the read state of every other channel; a read on a
\* Terminated connection raises ConnectionTerminatedException and leaves
\* the buffer, whatever it holds; and a worker whose read is pending on a
\* Terminated connection ends and its entry leaves the table.
C6_DropChannelTerminates ==
    /\ [][\A c \in Channels, mux_error \in BOOLEAN :
             (_process_drop_channel(c, mux_error)
              /\ c \in DOMAIN logical_channels)
             => /\ read_state'[c] = STATE_TERMINATED
                /\ \A d \in Channels \ {c} : read_state'[d] = read_state[d]
                /\ logical_channels' = logical_channels]_vars
    /\ [][\A c \in Channels :
             (_LogicalConnection_read(c) /\ read_state[c] = STATE_TERMINATED)
             => /\ workerPc'[c] = "finishing"
                /\ workerLocal'[c].result = "ConnectionTerminatedException"
                /\ incoming_data'[c] = incoming_data[c]]_vars
    /\ \A c \in Channels, r \in 0..MaxFrames :
          (/\ c \in DOMAIN logical_channels
           /\ logical_channels[c] = r
           /\ read_state[c] = STATE_TERMINATED
           /\ workerPc[c] \in {"read_header", "read_body"})
          ~> ~(c \in DOMAIN logical_channels /\ logical_channels[c] = r)

\* C6's case: the client has dropped c (the reader is still running), and
\* c's read has raised ConnectionTerminatedException with bytes buffered.
C6_Witness ==
    \E c \in Channels :
        /\ readerPc = "run"
        /\ c \in DOMAIN logical_channels
        /\ read_state[c] = STATE_TERMINATED
        /\ workerPc[c] = "finishing"
        /\ workerLocal[c].result = "ConnectionTerminatedException"
        /\ incoming_data[c] /= <<>>

\* C7: the read state of a connection that has left Active does not become
\* Active again, for as long as the connection is the one in the table.
C7_ReadStateMonotonic ==
    [][\A c \in DOMAIN logical_channels \cap DOMAIN logical_channels' :
          (logical_channels'[c] = logical_channels[c]
           /\ read_state[c] /= STATE_ACTIVE)
          => read_state'[c] /= STATE_ACTIVE]_vars

\* C7's case: a connection was terminated by a DropChannel and the reader
\* has gone through its exit after that.
C7_Witness ==
    \E c \in DOMAIN logical_channels :
        /\ read_state[c] = STATE_TERMINATED
        /\ incoming_data[c] /= <<>>
        /\ readerPc = "done"

\* C8: a close frame the client sends on a channel c in the table sets c's
\* read state to GracefullyClosed.
C8_CloseSetsGracefullyClosed ==
    [][\A c \in Channels, payload \in Payloads :
          (ReaderDispatchData(c, OPCODE_CLOSE, payload)
           /\ c \in DOMAIN logical_channels)
          => read_state'[c] = STATE_GRACEFULLY_CLOSED]_vars

(***************************************************************************)
(* Properties of wait_until_done and of the writer queue, checked under    *)
(* SpecLifecycle.                                                          *)
(***************************************************************************)
\* C11: wait_until_done returns False only out of a wait that ended with no
\* worker-done notification and with the table non-empty; that return
\* leaves the table and does not stop the writer; and True is returned
\* only through stop() and join(), entered on an empty table.
C11_WaitUntilDoneResults ==
    /\ [][(mainPc' = "ret_false" /\ mainPc /= "ret_false")
           => /\ mainPc = "waiting"
              /\ ~worker_done_notify_received
              /\ DOMAIN logical_channels /= {}
              /\ logical_channels' = logical_channels
              /\ ~stop_requested']_vars
    /\ [][(mainPc' = "stop" /\ mainPc /= "stop")
           => DOMAIN logical_channels = {}]_vars
    /\ [][(mainPc' = "ret_true" /\ mainPc /= "ret_true")
           => mainPc = "join" /\ stop_requested]_vars
    /\ [][(mainPc' = "join" /\ mainPc /= "join") => mainPc = "stop"]_vars
    /\ [](mainPc = "ret_false" => ~stop_requested)

\* C11's case: the wait timed out after one worker had ended and notified
\* and while another channel was still in the table.
C11_Witness ==
    /\ mainPc = "ret_false"
    /\ finished /= {}
    /\ DOMAIN logical_channels /= {}

\* The item the writer has popped and not yet written.
InHand ==
    IF writerPc \in {"write", "flush_write"} THEN <<outgoing_data>> ELSE <<>>

\* Everything put_outgoing_data has accepted, in the order it was accepted:
\* what is written, what the writer holds, what is queued.
Pipeline == wire \o InHand \o deque

\* The writer thread has not been ended by an exception.
WriterAlive == writerPc /= "dead"

C14_WriterNotifiesWithoutQueueLock ==
    [][notify_write_done => DequeLockFree]_vars

\* C15: once the reader has exited and notify_reader_done has run, every
\* channel in the table is Terminated.
C15_ReaderExitTerminatesAll ==
    readerPc = "done"
    => \A c \in DOMAIN logical_channels : read_state[c] = STATE_TERMINATED

\* s is what is left of t after some bytes were taken from its front.
IsSuffix(s, t) ==
    /\ Len(s) <= Len(t)
    /\ \A i \in 1..Len(s) : s[i] = t[Len(t) - Len(s) + i]

\* C16: a frame that names a channel c /= 0 in the table puts its inner
\* frame (the header byte, the length byte, the payload) at the end of c's
\* buffer and touches no other buffer; a control frame touches no buffer;
\* and a buffer changes only by such an append at its end, by a read that
\* takes bytes from its front, or by starting empty in a new connection.
C16_InnerFramesRouted ==
    /\ [][\A c \in Channels, opcode \in {OPCODE_TEXT, OPCODE_CLOSE},
             payload \in Payloads :
             (ReaderDispatchData(c, opcode, payload)
              /\ c \in DOMAIN logical_channels)
             => /\ incoming_data'[c] =
                      incoming_data[c] \o <<128 + opcode, Len(payload)>>
                      \o payload
                /\ \A d \in Channels \ {c} :
                      incoming_data'[d] = incoming_data[d]]_vars
    /\ [][((\E c \in ChannelIds, mux_error \in BOOLEAN :
                _process_drop_channel(c, mux_error))
           \/ (\E c \in Channels :
                  _process_add_channel_request(c, 0, TRUE, "accept")))
          => incoming_data' = incoming_data]_vars
    /\ [][\A c \in Channels :
             \/ Len(incoming_data'[c]) > Len(incoming_data[c])
                /\ SubSeq(incoming_data'[c], 1, Len(incoming_data[c]))
                      = incoming_data[c]
                /\ c \in DOMAIN logical_channels
             \/ IsSuffix(incoming_data'[c], incoming_data[c])]_vars

\* C16's case: the buffer of channel 1 holds a text frame and then a close
\* frame, in the order the client sent them.
C16_Witness ==
    /\ _DEFAULT_CHANNEL_ID \in DOMAIN logical_channels
    /\ incoming_data[_DEFAULT_CHANNEL_ID] =
          <<128 + OPCODE_TEXT, 1>> \o <<65>> \o <<128 + OPCODE_CLOSE, 0>>

\* C17: the step in which the reader meets a frame it cannot parse hands
\* the writer a DropChannel on the control channel.
C17_ParseErrorSendsDropChannel ==
    [][ReaderDispatchInvalid
       => /\ Len(deque') = Len(deque) + 1
          /\ deque'[Len(deque')].channel_id = _CONTROL_CHANNEL_ID
          /\ deque'[Len(deque')].kind = "DropChannel"]_vars

\* C18: when _add_logical_channel finds the id of the request in the table,
\* the request is answered with a DropChannel naming that id, and no
\* AddChannelResponse(rejected=false) has been handed to the writer for it.
C18_DuplicateRequestDropped ==
    [][(ReaderAddLogicalChannel /\ AlreadyExists(readerReq.channel_id))
       => /\ Len(deque') = Len(deque) + 1
          /\ deque'[Len(deque')].kind = "DropChannel"
          /\ deque'[Len(deque')].ch = readerReq.channel_id
          /\ \A i \in DOMAIN Pipeline :
                ~ /\ Pipeline[i].kind = "AddChannelResponse"
                  /\ ~Pipeline[i].rejected
                  /\ Pipeline[i].req = readerReq.req]_vars

\* C19: an AddChannelRequest for a channel c whose encoding field is
\* neither 0 nor 1 is answered with a DropChannel naming c.
C19_UnknownEncodingDropped ==
    [][\A c \in Channels, encoding \in Encodings \ {0, 1},
          wellformed \in BOOLEAN, outcome \in HandshakeOutcomes :
          _process_add_channel_request(c, encoding, wellformed, outcome)
          => /\ Len(deque') = Len(deque) + 1
             /\ deque'[Len(deque')].kind = "DropChannel"
             /\ deque'[Len(deque')].ch = c]_vars

\* C20: when the handshake engine rejects the request of a well-formed
\* AddChannelRequest for a channel c, for any of its three reasons and
\* while the writer still accepts data, the step hands the writer an
\* AddChannelResponse(rejected=true) naming c, leaves the table as it is,
\* and the reader goes on to its next frame.
C20_RejectedHandshakeAnswered ==
    [][\A c \in Channels, outcome \in HandshakeOutcomes \ {"accept"} :
          (_process_add_channel_request(c, 0, TRUE, outcome) /\ ~PutRaises)
          => /\ Len(deque') = Len(deque) + 1
             /\ deque'[Len(deque')].kind = "AddChannelResponse"
             /\ deque'[Len(deque')].rejected
             /\ deque'[Len(deque')].ch = c
             /\ logical_channels' = logical_channels
             /\ readerPc' = "run"]_vars

C28_QuotaViolationDropped ==
    [][\A c \in Channels, opcode \in {OPCODE_TEXT, OPCODE_CLOSE},
          payload \in Payloads :
          (ReaderDispatchData(c, opcode, payload)
           /\ c \in DOMAIN logical_channels
           /\ Len(payload) + 1 > 0)
          => /\ incoming_data'[c] = incoming_data[c]
             /\ Len(deque') = Len(deque) + 1
             /\ deque'[Len(deque')].kind = "DropChannel"
             /\ deque'[Len(deque')].ch = c]_vars

\* C29: after a FlowControl block from the client the reader goes on to
\* its next frame.
C29_FlowControlKeepsReader ==
    [][\A c \in Channels : _process_flow_control(c) => readerPc' = "run"]_vars

\* C30: with no slot open (the handler has granted the client none, and it
\* never sends a NewChannelSlot block that would grant one), a well-formed
\* AddChannelRequest for a channel c >= 2 that the handshake engine would
\* accept is answered with a DropChannel naming c, and no worker is
\* started for it.
C30_SlotViolationDropped ==
    /\ [][\A c \in 2..MaxChannel :
             (_process_add_channel_request(c, 0, TRUE, "accept") /\ ~PutRaises)
             => /\ Len(deque') = Len(deque) + 1
                /\ deque'[Len(deque')].kind = "DropChannel"
                /\ deque'[Len(deque')].ch = c
                /\ readerPc' = "run"]_vars
    /\ [](\A c \in 2..MaxChannel : workerPc[c] = "none")

\* C31: a delta-encoded AddChannelRequest (encoding 1) for a channel
\* c >= 2 whose resolved handshake the engine accepts is answered, while
\* the writer accepts data, with an AddChannelResponse(rejected=false)
\* naming c, and the reader goes on to add the channel.
C31_DeltaRequestResolved ==
    [][\A c \in 2..MaxChannel :
          (_process_add_channel_request(c, 1, TRUE, "accept") /\ ~PutRaises)
          => /\ Len(deque') = Len(deque) + 1
             /\ deque'[Len(deque')].kind = "AddChannelResponse"
             /\ ~deque'[Len(deque')].rejected
             /\ deque'[Len(deque')].ch = c
             /\ readerPc' = "add"]_vars

\* C32: once server_terminated is set for channel c (by the closing
\* handshake or by close_connection), no frame of the stream of c (data,
\* ping, pong or close) is handed to the writer: every step that enqueues
\* an inner frame for c is taken with server_terminated[c] false.
C32_NoFrameAfterServerTerminated ==
    [][\A c \in Channels :
          (/\ Len(deque') = Len(deque) + 1
           /\ deque'[Len(deque')].kind = "Frame"
           /\ deque'[Len(deque')].channel_id = c)
          => ~server_terminated[c]]_vars

\* C33: a data frame that arrives for a channel whose worker has returned
\* after the closing handshake was sent, and whose entry has been removed
\* from the table, is dropped: no buffer and no read state changes, and the
\* reader goes on reading.
C33_LateFrameDropped ==
    [][\A c \in Channels, payload \in Payloads :
          (/\ ReaderDispatchData(c, OPCODE_TEXT, payload)
           /\ c \notin DOMAIN logical_channels
           /\ \E f \in finished : f.channel_id = c /\ f.server_terminated)
          => /\ readerPc' = "run"
             /\ UNCHANGED <<incoming_data, read_state>>]_vars

\* The stream of channel c hands a frame to the writer in this step.
HandsFrame(c) ==
    /\ Len(deque') = Len(deque) + 1
    /\ workerPc[c] \in {"idle", "process"}
    /\ workerPc'[c] = "write_wait"

\* C35: every frame the stream of channel c hands to the writer (data
\* message, close, ping or pong) carries the channel id c, the opcode of
\* the call and its body, and is enqueued tagged with c; the pong that
\* answers a ping read from the connection of c has the body of that ping;
\* and an inner frame is enqueued with the tag c by the stream of c only.
C35_FramesCarryChannel ==
    [][LET item == deque'[Len(deque')] IN
       \A c \in Channels :
          /\ HandsFrame(c)
                => /\ item.kind = "Frame"
                   /\ item.channel_id = c
                   /\ item.ch = c
                   /\ item.req = logical_channels[c]
          /\ \A body \in Payloads :
                /\ (send_message(c, body) /\ HandsFrame(c))
                      => (item.op = OPCODE_TEXT /\ item.body = body)
                /\ (send_ping(c, body) /\ HandsFrame(c))
                      => (item.op = OPCODE_PING /\ item.body = body)
          /\ (_send_pong(c) /\ HandsFrame(c))
                => (item.op = OPCODE_PONG /\ item.body = workerLocal[c].got)
          /\ (WorkerProcessFrame(c) /\ HandsFrame(c))
                => (item.op = OPCODE_CLOSE /\ item.body = <<>>)
          /\ (/\ Len(deque') = Len(deque) + 1
              /\ item.kind = "Frame"
              /\ item.channel_id = c)
                => HandsFrame(c)]_vars

\* The pong that answers a ping with a body, received on a channel other
\* than the default one, is in the writer's queue.
C35_Witness ==
    /\ deque /= <<>>
    /\ deque[Len(deque)].kind = "Frame"
    /\ deque[Len(deque)].op = OPCODE_PONG
    /\ deque[Len(deque)].channel_id = MaxChannel
    /\ deque[Len(deque)].body /= <<>>
    /\ workerLocal[MaxChannel].cont = "pong"

\* C36: a channel is in the table exactly while it has a worker that has
\* not run notify_worker_done; a worker is started in the step that puts
\* its entry into the table; a worker whose handler has ended can only run
\* notify_worker_done, which removes the entry of its channel, ends the
\* worker and leaves the notification a thread waiting in wait_until_done
\* tests; and nothing else removes an entry.
C36_OneWorkerPerChannel ==
    /\ [](\A c \in Channels :
             c \in DOMAIN logical_channels <=> workerPc[c] /= "none")
    /\ [][\A c \in Channels :
             (workerPc[c] = "none" /\ workerPc'[c] /= "none")
             => /\ workerPc'[c] = "idle"
                /\ c \notin DOMAIN logical_channels
                /\ c \in DOMAIN logical_channels']_vars
    /\ [][\A c \in Channels :
             workerPc[c] = "finishing"
             => workerPc'[c] \in {"finishing", "none"}]_vars
    /\ [][\A c \in Channels :
             notify_worker_done(c)
             => /\ workerPc[c] = "finishing"
                /\ workerPc'[c] = "none"
                /\ c \in DOMAIN logical_channels
                /\ DOMAIN logical_channels' = DOMAIN logical_channels \ {c}
                /\ worker_done_notify_received'
                /\ mainPc' = mainPc]_vars
    /\ [][\A c \in Channels :
             (c \in DOMAIN logical_channels
              /\ c \notin DOMAIN logical_channels')
             => notify_worker_done(c)]_vars

\* The worker of a channel the client added has ended and notified while
\* the caller of wait_until_done was waiting.
C36_Witness ==
    /\ mainPc = "waiting"
    /\ worker_done_notify_received
    /\ \E f \in finished : f.channel_id = MaxChannel
    /\ workerPc[MaxChannel] = "none"

\* C39: a write that fails because the writer was asked to stop leaves the
\* connection as it was: nothing is enqueued and the connection is not
\* waiting for the completion of a write, so that a later write on it is
\* not refused as already waiting.
C39_FailedWriteLeavesConnection ==
    [][\A c \in Channels :
          (/\ send_message(c, <<>>)
           /\ ~server_terminated[c]
           /\ ~waiting_write_completion[c]
           /\ PutRaises)
          => /\ workerLocal'[c].result = "BadOperationException"
             /\ deque' = deque
             /\ ~waiting_write_completion'[c]]_vars

\* The locks a method takes.
LocksOf(method) == {method[i].lock : i \in 1..Len(method)}

C40_SendReturnsAfterSent ==
    /\ [](\A k \in returned : \E i \in 1..Len(sent) : sent[i] = k)
    /\ [][(SenderNotify /\ calls[sender.item.condition].blocking)
           => condition[sender.item.condition].waiting]_vars
    /\ \A k \in 1..MaxMessages :
          ((\E i \in 1..Len(sent) : sent[i] = k) /\ calls[k].blocking)
          ~> (k \in returned)
    /\ [](\A i \in 1..Len(sent) : sent[i] = i)

\* Both threads have had a call of send return, with a message queued by
\* send_nowait sent in between.
C40_Witness ==
    /\ Len(sent) = 3
    /\ ~calls[2].blocking
    /\ returned = {1, 3}
    /\ calls[1].caller /= calls[3].caller

(***************************************************************************)
(* Properties of the payload codec, checked under SpecEncode and           *)
(* SpecParse.                                                              *)
(***************************************************************************)
\* The value a channel id form carries, most significant byte first, once
\* the prefix bits of its first byte are taken off.
FormValue(b, prefix_bits) ==
    IF Len(b) = 1 THEN b[1] % 2^(8 - prefix_bits)
    ELSE IF Len(b) = 2 THEN (b[1] % 2^(8 - prefix_bits)) * 2^8 + b[2]
    ELSE IF Len(b) = 3
    THEN (b[1] % 2^(8 - prefix_bits)) * 2^16 + b[2] * 2^8 + b[3]
    ELSE (b[1] % 2^(8 - prefix_bits)) * 2^24 + b[2] * 2^16 + b[3] * 2^8 + b[4]

\* b is the form of n bytes with the given prefix (its length in bits and
\* its value) that carries v.
IsForm(b, n, prefix_bits, prefix, v) ==
    /\ Len(b) = n
    /\ \A i \in 1..n : b[i] \in 0..255
    /\ b[1] \div 2^(8 - prefix_bits) = prefix
    /\ FormValue(b, prefix_bits) = v

\* C22: each call of _encode_channel_id(v) raises ValueError, adding no
\* byte, when v < 0 or v >= 2^29, and returns otherwise the shortest form:
\* one byte with prefix 0 below 2^7, two bytes with prefix 10 below 2^14,
\* three bytes with prefix 110 below 2^21, four bytes with prefix 111
\* below 2^29, each carrying v most significant byte first.
C22_ShortestForm ==
    [][EncodeChannelId =>
          LET v == Head(to_encode)
              r == parsed'[Len(parsed')]
          IN  /\ (v < 0 \/ v >= 2^29)
                    => (r.kind = "ValueError" /\ data' = data)
              /\ (0 <= v /\ v < 2^29)
                    => (r.kind = "bytes" /\ data' = data \o r.bytes)
              /\ (0 <= v /\ v < 2^7) => IsForm(r.bytes, 1, 1, 0, v)
              /\ (2^7 <= v /\ v < 2^14) => IsForm(r.bytes, 2, 2, 2, v)
              /\ (2^14 <= v /\ v < 2^21) => IsForm(r.bytes, 3, 3, 6, v)
              /\ (2^21 <= v /\ v < 2^29) => IsForm(r.bytes, 4, 3, 7, v)]_vars

\* C22's case: the largest legal id has been encoded in four bytes and the
\* id after it has been refused.
C22_Witness ==
    /\ Len(parsed) = 2
    /\ parsed[1].kind = "bytes"
    /\ parsed[1].bytes = <<255, 255, 255, 255>>
    /\ parsed[2].kind = "ValueError"
    /\ data = <<255, 255, 255, 255>>

IsEncoded(r) == r.kind = "bytes"
IsDecoded(r) == r.kind = "channel_id"

\* What _encode_channel_id returned and what read_channel_id returned, in
\* the order of the calls.
Encoded == SelectSeq(parsed, IsEncoded)
Decoded == SelectSeq(parsed, IsDecoded)

\* C23: read_channel_id on ids encoded back to back returns them in the
\* order they were encoded, each call advancing the read position by the
\* length of the id's encoding; it raises only once every id has been
\* read, and then the read position is the end of the data.
C23_DecodeOfEncode ==
    /\ Len(Decoded) <= Len(Encoded)
    /\ \A i \in 1..Len(Decoded) :
          /\ Decoded[i].channel_id = Encoded[i].channel_id
          /\ Decoded[i].pos =
                (IF i = 1 THEN 0 ELSE Decoded[i - 1].pos)
                + Len(Encoded[i].bytes)
    /\ (parserPc = "parse" /\ Len(Decoded) = Len(Encoded))
          => read_position = Len(data)
    /\ (\E i \in DOMAIN parsed : parsed[i].kind = "InvalidMuxFrameException")
          => (Len(Decoded) = Len(Encoded) /\ read_position = Len(data))

\* C23's case: a three-byte id and a four-byte id encoded back to back
\* have both been read and the read position is the end of the data.
C23_Witness ==
    /\ parserPc = "parse"
    /\ Len(Decoded) = 2
    /\ Decoded[1].channel_id = 70000
    /\ Decoded[2].channel_id = 2^29 - 1
    /\ read_position = 7
    /\ Len(data) = 7

\* C24: a channel id read_channel_id returns at the start of a payload was
\* written in its shortest form: the bytes read are as many as
\* _encode_channel_id writes for that id.
C24_OverlongIdRejected ==
    (parsed /= <<>> /\ parsed[1].kind = "channel_id")
        => parsed[1].pos = Len(_encode_channel_id(parsed[1].channel_id).bytes)

ShortestSizeOfSize(size) ==
    IF size < 2^8 THEN 1 ELSE IF size < 2^16 THEN 2
    ELSE IF size < 2^24 THEN 3 ELSE 4

\* C26: a control block the parser returns has its size field in the
\* shortest form for the length of the data it carries: the size of the
\* size field named by the block's first byte is the least that holds it.
C26_OverlongSizeRejected ==
    [][DispatchReadControlBlocks =>
          LET r == parsed'[Len(parsed')]
              first_byte == data[read_position + 1]
          IN  r.kind = "block"
                => (first_byte % 4) + 1 = ShortestSizeOfSize(Len(r.bytes))]_vars

\* C27: the parser returns no DropChannel block that has mux_error false
\* and a reason that is not empty.
C27_ReasonOnlyWithMuxError ==
    \A i \in DOMAIN parsed :
        (parsed[i].kind = "block"
         /\ parsed[i].opcode = _MUX_OPCODE_DROP_CHANNEL
         /\ parsed[i].flag = 0)
            => parsed[i].bytes = <<>>

\* C38: for every (channel_id, reason, mux_error) _create_drop_channel
\* accepts, reading the payload it builds succeeds and yields exactly one
\* DropChannel block, with the same channel id, mux_error flag and reason.
\* In parsed the result of _create_drop_channel comes first, then the one
\* of read_channel_id, then those of read_control_blocks.
C38_DropChannelRoundTrip ==
    (Len(to_encode) = 1 /\ Len(parsed) >= 1 /\ parsed[1].kind = "bytes")
    => /\ \A i \in 2..Len(parsed) : parsed[i].kind \notin Exceptions
       /\ Len(parsed) >= 3
             => /\ parsed[3].kind = "block"
                /\ parsed[3].opcode = _MUX_OPCODE_DROP_CHANNEL
                /\ parsed[3].channel_id = to_encode[1].channel_id
                /\ parsed[3].flag = (IF to_encode[1].mux_error THEN 1 ELSE 0)
                /\ parsed[3].bytes = to_encode[1].reason
       /\ Len(parsed) >= 4 => parsed[4].kind = "StopIteration"

\* The results of the turns of read_control_blocks, in the order of the
\* turns: parsed without the results of _create_drop_channel and the one of
\* read_channel_id.
Turns ==
    IF Len(parsed) > Len(to_encode) + 1
    THEN SubSeq(parsed, Len(to_encode) + 2, Len(parsed))
    ELSE <<>>

Acquires(t, l) == held'[t] = Append(held[t], l)

\* C13: a thread that acquires the channel-table lock holds no
\* connection's read lock or write lock, and a thread that acquires a
\* connection's write lock does not hold that connection's read lock.
C13_TableLockFirst ==
    [][\A t \in Threads :
          /\ Acquires(t, TableLock)
             => \A c \in Channels :
                   ~Holds(t, ReadLock(c)) /\ ~Holds(t, WriteLock(c))
          /\ \A c \in Channels :
                Acquires(t, WriteLock(c)) => ~Holds(t, ReadLock(c))]_vars

\* C13's case: a thread holds the channel-table lock and, taken inside it,
\* a connection's write lock, while that connection's worker is in write.
C13_Witness ==
    \E c \in Channels :
        /\ held[WriterThread] = <<TableLock, WriteLock(c)>>
        /\ prog[WorkerThread(c)] /= <<>>
        /\ Head(prog[WorkerThread(c)]) = Acq(WriteLock(c))

====
